---- MODULE Spec2Model ----
(***************************************************************************)
(* A model of the schedule assistant (assistant.py, webapp.py, gui.py):    *)
(* the event store, the date resolver, the sentence parsers, the planners, *)
(* the conversational memory and the front ends that drive them.           *)
(***************************************************************************)
EXTENDS Integers, Sequences, FiniteSets, TLC

VARIABLES
    events,     \* the rows of table `events`, in id order
    nextId,     \* the next AUTOINCREMENT id
    memory,     \* the ChatMemory of the running front end
    saved,      \* the persisted chat_memory.json
    now,        \* the calendar date datetime.now() reports
    text,       \* the sentence (or argument) of the last call
    result,     \* what the last call returned
    pc          \* the last operation that ran

vars == <<events, nextId, memory, saved, now, text, result, pc>>

----------------------------------------------------------------------------
(* Bounds of the model.                                                    *)

MaxRows == 3
MaxList == 2
MaxStored == 2
MaxLen == 3

MaxPhrases == 2

----------------------------------------------------------------------------
(* Calendar arithmetic of datetime.date (proleptic Gregorian).             *)

NoDate == [y |-> 0, m |-> 0, d |-> 0]

IsLeap(y) == (y % 4 = 0) /\ ((y % 100 # 0) \/ (y % 400 = 0))

DaysInMonth(y, m) ==
    IF m = 2 THEN (IF IsLeap(y) THEN 29 ELSE 28)
    ELSE IF m \in {4, 6, 9, 11} THEN 30 ELSE 31

\* datetime(y, m, d) raises ValueError unless the date exists.
ValidDate(y, m, d) ==
    /\ y \in 1..9999
    /\ m \in 1..12
    /\ d >= 1
    /\ d <= DaysInMonth(y, m)

RECURSIVE DaysBeforeMonth(_, _)
DaysBeforeMonth(y, m) ==
    IF m <= 1 THEN 0 ELSE DaysBeforeMonth(y, m - 1) + DaysInMonth(y, m - 1)

DaysBeforeYear(y) ==
    LET p == y - 1 IN 365 * p + (p \div 4) - (p \div 100) + (p \div 400)

\* date.toordinal()
Ordinal(dt) == DaysBeforeYear(dt.y) + DaysBeforeMonth(dt.y, dt.m) + dt.d

\* a.date() < b.date()
DateLess(a, b) == Ordinal(a) < Ordinal(b)

\* (a.date() - b.date()).days
DaysBetween(a, b) == Ordinal(a) - Ordinal(b)

RECURSIVE MonthOfDayInYear(_, _, _)
MonthOfDayInYear(y, m, n) ==
    IF n <= DaysInMonth(y, m) THEN [y |-> y, m |-> m, d |-> n]
    ELSE MonthOfDayInYear(y, m + 1, n - DaysInMonth(y, m))

RECURSIVE YearOfOrdinal(_, _)
YearOfOrdinal(y, n) ==
    LET len == IF IsLeap(y) THEN 366 ELSE 365
    IN  IF n <= len THEN MonthOfDayInYear(y, 1, n)
        ELSE YearOfOrdinal(y + 1, n - len)

\* date + timedelta(days=n), for n >= 0
AddDays(dt, n) ==
    YearOfOrdinal(dt.y, DaysBeforeMonth(dt.y, dt.m) + dt.d + n)

----------------------------------------------------------------------------
(* The event store: table `events` and insert_events.                      *)
(* A title is a sequence of one-character strings; a planner's title is a  *)
(* sequence of its fields.  A row keeps the calendar day and the clock of  *)
(* event_time apart: substr(event_time, 1, 10) is the day, for the         *)
(* four-digit years strftime("%Y") and isoformat() print alike.            *)

Event(day, hh, mm, title) == [day |-> day, hh |-> hh, mm |-> mm, title |-> title]

Row(id, ev, notified) ==
    [id |-> id, title |-> ev.title, day |-> ev.day, hh |-> ev.hh, mm |-> ev.mm,
     notified |-> notified]

TitlePunct == {" ", "-", "_", ".", ",", "!", "?", "'", "\"", "(", ")", "[", "]", "{", "}"}

LowerChar(c) ==
    CASE c = "A" -> "a"
      [] c = "B" -> "b"
      [] OTHER -> c

KeepChar(c) == c \notin TitlePunct

\* title_key: lower-case, then drop whitespace and the listed punctuation.
title_key(title) ==
    SelectSeq([i \in 1..Len(title) |-> LowerChar(title[i])], KeepChar)

\* ev.when.strftime("%Y-%m-%d") against substr(event_time, 1, 10)
day_key(day) == <<day.y, day.m, day.d>>

\* SELECT id ... WHERE substr(event_time, 1, 10) = ? ORDER BY id ASC, kept
\* where title_key agrees.
MatchingIds(rows, ev) ==
    LET Matches(r) == /\ day_key(r.day) = day_key(ev.day)
                      /\ title_key(r.title) = title_key(ev.title)
        hit == SelectSeq(rows, Matches)
    IN  [i \in 1..Len(hit) |-> hit[i].id]

SeqRange(s) == {s[i] : i \in 1..Len(s)}

IsPrimary(r, primary) == r.id = primary

\* UpdatePrimary with the reset of the notified flag forgotten.
UpdatePrimaryKeepsFlag(rows, ev, matching) ==
    LET primary == matching[1]
        dups == SeqRange(matching) \ {primary}
        Keep(r) == r.id \notin dups
        kept == SelectSeq(rows, Keep)
    IN  [i \in 1..Len(kept) |->
            IF IsPrimary(kept[i], primary)
            THEN Row(kept[i].id, ev, kept[i].notified)
            ELSE kept[i]]

\* UPDATE events SET title, event_time, notified = 0 WHERE id = primary;
\* DELETE the other matching ids.
UpdatePrimary(rows, ev, matching) ==
    LET primary == matching[1]
        dups == SeqRange(matching) \ {primary}
        Keep(r) == r.id \notin dups
        kept == SelectSeq(rows, Keep)
    IN  [i \in 1..Len(kept) |->
            IF IsPrimary(kept[i], primary) THEN Row(kept[i].id, ev, 0) ELSE kept[i]]

\* One pass of the loop of insert_events over a store [rows, next].
InsertOne(st, ev) ==
    LET matching == MatchingIds(st.rows, ev)
    IN  IF matching # <<>>
        THEN [rows |-> UpdatePrimary(st.rows, ev, matching), next |-> st.next]
        ELSE [rows |-> Append(st.rows, Row(st.next, ev, 0)), next |-> st.next + 1]

\* The loop over events lo .. hi, in order: first lo .. mid, then the rest
\* from the store that pass left.  (next is always positive; the test makes
\* the first half be evaluated before the second is entered.)
RECURSIVE InsertAll(_, _, _, _)
InsertAll(st, evs, lo, hi) ==
    IF lo > hi THEN st
    ELSE IF lo = hi THEN InsertOne(st, evs[lo])
    ELSE LET mid == (lo + hi) \div 2
             left == InsertAll(st, evs, lo, mid)
         IN  IF left.next > 0 THEN InsertAll(left, evs, mid + 1, hi) ELSE left

insert_events(st, evs) == InsertAll(st, evs, 1, Len(evs))

HasId(rows, id) == \E i \in 1..Len(rows) : rows[i].id = id

\* UPDATE events SET title = ?, event_time = ?, notified = 0 WHERE id = ?
UpdateRow(rows, id, ev) ==
    [i \in 1..Len(rows) |-> IF rows[i].id = id THEN Row(id, ev, 0) ELSE rows[i]]

\* DELETE FROM events WHERE id = ?
DeleteRow(rows, id) ==
    LET Keep(r) == r.id # id IN SelectSeq(rows, Keep)

\* UPDATE events SET notified = 1 WHERE id = ?, for every alerted id
MarkNotified(rows, ids) ==
    [i \in 1..Len(rows) |->
        IF rows[i].id \in ids THEN [rows[i] EXCEPT !.notified = 1] ELSE rows[i]]

PendingIds(rows) == {rows[i].id : i \in {j \in 1..Len(rows) : rows[j].notified = 0}}

----------------------------------------------------------------------------
(* Sentences.  A sentence is a sequence of tokens [k, v], written with one *)
(* space between neighbours: a numeral ("num", its value in v), an         *)
(* ISO-like date ("iso", v = 10000*y + 100*m + d), a marker of the fixed   *)
(* vocabulary (k names it), an ordinary word ("word", v tells words        *)
(* apart), a comma, or further whitespace ("ws").  A "glue" token stands   *)
(* between a numeral and a marker written without a space, as the clauses  *)
(* of apply_chat_memory write them; "examuntil" is K_EXAM and K_UNTIL      *)
(* written as one word; a decimal numeral ("dec", its tenths in v) stands  *)
(* in the sentences parse_subject_loads is called on.  The patterns of     *)
(* the code allow whitespace, or none,                                     *)
(* wherever tokens meet, so they are read here on the sentence             *)
(* without its "ws" and "glue" tokens; what splits a sentence at its       *)
(* whitespace reads it in Words.                                           *)

Tok(k, v) == [k |-> k, v |-> v]

T(k) == Tok(k, 0)

Num(v) == Tok("num", v)

Iso(y, m, d) == Tok("iso", 10000 * y + 100 * m + d)

IsoY(tok) == tok.v \div 10000

IsoM(tok) == (tok.v \div 100) % 100

IsoD(tok) == tok.v % 100

IsWs(tok) == tok.k = "ws"

NotWs(tok) == tok.k \notin {"ws", "glue"}

NoWs(s) == SelectSeq(s, NotWs)

RECURSIVE StripLeft(_)
StripLeft(s) ==
    IF s # <<>> /\ IsWs(Head(s)) THEN StripLeft(Tail(s)) ELSE s

RECURSIVE StripRight(_)
StripRight(s) ==
    IF s # <<>> /\ IsWs(s[Len(s)]) THEN StripRight(SubSeq(s, 1, Len(s) - 1)) ELSE s

\* str.strip()
Strip(s) == StripRight(StripLeft(s))

\* K_X in text
Has(s, k) ==
    \E i \in 1..Len(s) :
        s[i].k = k \/ (s[i].k = "examuntil" /\ k \in {"exam", "until"})

\* The tokens of a run written without a space.
Unrun(tok) == IF tok.k = "glued" THEN tok.v ELSE <<tok>>

\* Each run of glued tokens as one token "glued" that holds the run.
RECURSIVE Runs(_)
Runs(s) ==
    IF s = <<>> THEN <<>>
    ELSE IF Len(s) >= 3 /\ s[2].k = "glue"
         THEN Runs(<<Tok("glued", Unrun(s[1]) \o <<s[2], s[3]>>)>> \o SubSeq(s, 4, Len(s)))
         ELSE <<s[1]>> \o Runs(Tail(s))

\* What whitespace separates: the tokens, a glued run as one.
Words(s) == LET NotSpace(tok) == tok.k # "ws" IN Runs(SelectSeq(s, NotSpace))

\* The token ends in digits: a pattern \d{1,2} may end there.
EndsInDigits(tok) == tok.k \in {"num", "iso", "tail"}

\* What \d{1,2} takes when the marker follows: the last two digits.
Trail2(tok) == IF tok.k = "iso" THEN IsoD(tok) ELSE tok.v % 100

\* What \d{1,3} takes when the marker follows.
Trail3(tok) == IF tok.k = "iso" THEN IsoD(tok) ELSE tok.v % 1000

\* A numeral that \d{1,2} takes whole.
IsShortNum(tok) == tok.k = "num" /\ tok.v < 100

\* K_HOUR is the first character of K_HOURS and of K_EXAM.
SiKinds == {"hour", "hours", "exam", "examuntil"}

\* \d{1,2}\s*일 matches at token i
DayAt(s, i) == i + 1 <= Len(s) /\ EndsInDigits(s[i]) /\ s[i + 1].k = "day"

\* \d{1,2}\s*시 matches at token i
HourAt(s, i) == i + 1 <= Len(s) /\ EndsInDigits(s[i]) /\ s[i + 1].k \in SiKinds

\* \d{1,2}\s*월\s*\d{1,2}\s*일 matches at token i
MonthDayAt(s, i) ==
    /\ i + 3 <= Len(s)
    /\ EndsInDigits(s[i])
    /\ s[i + 1].k = "month"
    /\ IsShortNum(s[i + 2])
    /\ s[i + 3].k = "day"

\* The first index from i on at which P holds, 0 when there is none.
RECURSIVE FirstFrom(_, _, _)
FirstFrom(P(_, _), s, i) ==
    IF i > Len(s) THEN 0
    ELSE IF P(s, i) THEN i ELSE FirstFrom(P, s, i + 1)

IsoAt(s, i) == s[i].k = "iso"

----------------------------------------------------------------------------
(* The date resolver.  A call returns [st, v]: "ok" with a date, "none",   *)
(* or "err" when datetime(...) raises ValueError.                          *)

Ok(v) == [st |-> "ok", v |-> v]

Absent == [st |-> "none", v |-> NoDate]

Raised == [st |-> "err", v |-> NoDate]

\* datetime(y, m, d)
MkDate(y, m, d) ==
    IF ValidDate(y, m, d) THEN Ok([y |-> y, m |-> m, d |-> d]) ELSE Raised

infer_date(base, day) ==
    LET candidate == MkDate(base.y, base.m, day)
    IN  IF candidate.st # "ok" THEN candidate
        ELSE IF DateLess(candidate.v, base)
             THEN IF base.m = 12
                  THEN MkDate(base.y + 1, 1, day)
                  ELSE MkDate(base.y, base.m + 1, day)
             ELSE candidate

infer_month_day(base, month, day) ==
    LET candidate == MkDate(base.y, month, day)
    IN  IF candidate.st # "ok" THEN candidate
        ELSE IF DateLess(candidate.v, base)
             THEN MkDate(base.y + 1, month, day)
             ELSE candidate

\* The ISO and the month-day branch, common to the two date parsers.
ExplicitDate(s, base) ==
    LET i == FirstFrom(IsoAt, s, 1)
        j == FirstFrom(MonthDayAt, s, 1)
    IN  IF i # 0 THEN MkDate(IsoY(s[i]), IsoM(s[i]), IsoD(s[i]))
        ELSE IF j # 0 THEN infer_month_day(base, Trail2(s[j]), s[j + 2].v)
        ELSE Absent

parse_generic_date(txt, base) ==
    LET s == NoWs(txt)
        explicit == ExplicitDate(s, base)
        k == FirstFrom(DayAt, s, 1)
    IN  IF explicit.st # "none" THEN explicit
        ELSE IF k # 0 THEN infer_date(base, Trail2(s[k]))
        ELSE Absent

parse_exam_date(txt, base) ==
    LET s == NoWs(txt)
        explicit == ExplicitDate(s, base)
        k == FirstFrom(DayAt, s, 1)
    IN  IF explicit.st # "none" THEN explicit
        ELSE IF k # 0 /\ (Has(s, "exam") \/ Has(s, "ctest"))
             THEN infer_date(base, Trail2(s[k]))
        ELSE Absent

has_explicit_exam_date(txt) ==
    LET s == NoWs(txt)
    IN  \/ FirstFrom(IsoAt, s, 1) # 0
        \/ FirstFrom(MonthDayAt, s, 1) # 0
        \/ ((Has(s, "exam") \/ Has(s, "ctest")) /\ FirstFrom(DayAt, s, 1) # 0)

----------------------------------------------------------------------------
(* Titles.  The text of a title is a sequence of atoms: a character (the   *)
(* space, punctuation, the particles and the characters of the endings     *)
(* normalize_title looks for, romanized) or the text of a token, which     *)
(* holds none of those characters.  Titles are cut from sentences as      *)
(* typed, one space between tokens: the clauses of apply_chat_memory go    *)
(* with an exam or a study request, which handle_ask hands to the          *)
(* planners.                                                               *)

K_DEFAULT_TITLE == <<"iljeong">>

WordStr(v) ==
    CASE v = 1 -> "math"
      [] v = 2 -> "english"
      [] v = 3 -> "korean"
      [] v = 4 -> "meeting"
      [] OTHER -> ToString(v)

TokStr(tok) ==
    CASE tok.k \in {"num", "lit", "tail"} -> ToString(tok.v)
      [] tok.k = "word" -> WordStr(tok.v)
      [] tok.k = "comma" -> ","
      [] tok.k = "ws" -> " "
      [] OTHER -> tok.k

\* %m and %d of strftime, and the two-digit fields of an ISO date
Pad2(n) == IF n < 10 THEN <<"0", ToString(n)>> ELSE <<ToString(n)>>

\* The characters of one token; "isolit" is the "yyyy-mm-" left of an ISO
\* date whose day went to a match.
TokAtoms(tok) ==
    IF tok.k = "isolit"
    THEN <<ToString(tok.v \div 100), "-">> \o Pad2(tok.v % 100) \o <<"-">>
    ELSE IF tok.k = "iso"
    THEN <<ToString(IsoY(tok)), "-">> \o Pad2(IsoM(tok)) \o <<"-">> \o Pad2(IsoD(tok))
    ELSE <<TokStr(tok)>>

\* The characters of the tokens, one space between two tokens; the head of
\* a split numeral is followed at once by its tail, a glued token by its
\* neighbour.
RECURSIVE AtomsOf(_)
AtomsOf(toks) ==
    IF toks = <<>> THEN <<>>
    ELSE IF Len(toks) = 1 THEN TokAtoms(toks[1])
    ELSE IF toks[2].k = "glue"
    THEN TokAtoms(toks[1]) \o AtomsOf(Tail(Tail(toks)))
    ELSE IF toks[1].k \in {"lit", "isolit"} /\ toks[2].k = "tail"
    THEN TokAtoms(toks[1]) \o Pad2(toks[2].v)
         \o (IF Len(toks) = 2 THEN <<>> ELSE <<" ">> \o AtomsOf(Tail(Tail(toks))))
    ELSE TokAtoms(toks[1]) \o <<" ">> \o AtomsOf(Tail(toks))

RECURSIVE LStrip(_, _)
LStrip(a, chars) ==
    IF a # <<>> /\ Head(a) \in chars THEN LStrip(Tail(a), chars) ELSE a

RECURSIVE RStrip(_, _)
RStrip(a, chars) ==
    IF a # <<>> /\ a[Len(a)] \in chars
    THEN RStrip(SubSeq(a, 1, Len(a) - 1), chars)
    ELSE a

\* str.strip(chars)
StripChars(a, chars) == RStrip(LStrip(a, chars), chars)

LeadParticles == {"eun", "neun", "i", "ga", "eul", "reul", "e"}

TrailParticles == {"i", "ga", "eun", "neun", "eul", "reul"}

Endings ==
    {<<"i", "ya">>, <<"iss", "eo">>, <<"iss", "go">>,
     <<"iss", "seup", "ni", "da">>, <<"ye", "jeong">>}

IsSuffix(e, a) ==
    Len(e) <= Len(a) /\ SubSeq(a, Len(a) - Len(e) + 1, Len(a)) = e

\* re.sub(r"^(particle)\s*", "", text)
DropLeadParticle(a) ==
    IF Len(a) >= 2 /\ a[1] = "e" /\ a[2] = "neun"
    THEN LStrip(SubSeq(a, 3, Len(a)), {" "})
    ELSE IF a # <<>> /\ a[1] \in LeadParticles
         THEN LStrip(Tail(a), {" "})
         ELSE a

\* re.sub(r"(ending)\s*$", "", text)
DropEnding(a) ==
    LET b == RStrip(a, {" "})
        hits == {e \in Endings : IsSuffix(e, b)}
    IN  IF hits = {} THEN a
        ELSE LET e == CHOOSE x \in hits : \A y \in hits : Len(x) >= Len(y)
             IN  SubSeq(b, 1, Len(b) - Len(e))

\* re.sub(r"(particle)$", "", text)
DropTrailParticle(a) ==
    IF a # <<>> /\ a[Len(a)] \in TrailParticles
    THEN SubSeq(a, 1, Len(a) - 1)
    ELSE a

\* re.sub(r"\s+", " ", text)
RECURSIVE Collapse(_)
Collapse(a) ==
    IF Len(a) < 2 THEN a
    ELSE IF a[1] = " " /\ a[2] = " " THEN Collapse(Tail(a))
    ELSE <<a[1]>> \o Collapse(Tail(a))

normalize_title(raw) ==
    LET t1 == StripChars(raw, {" ", ",", "."})
        t2 == DropLeadParticle(t1)
        t3 == DropEnding(t2)
        t4 == StripChars(t3, {" "})
        t5 == DropTrailParticle(t4)
        t6 == StripChars(Collapse(t5), {" ", ",", "."})
    IN  IF t6 = <<>> THEN K_DEFAULT_TITLE ELSE t6

----------------------------------------------------------------------------
(* The event extractor.  A call returns [st, evs]: "ok" with the events,   *)
(* or "err" when a datetime cannot be built (ValueError).                  *)

Events(evs) == [st |-> "ok", evs |-> evs]

Fails == [st |-> "err", evs |-> <<>>]

\* A numeral of three digits or an ISO date, of which \d{1,2} takes only
\* the tail: the head stays in the text around the match.
ExpandTok(tok) ==
    IF tok.k = "iso"
    THEN <<Tok("isolit", tok.v \div 100), Tok("tail", IsoD(tok))>>
    ELSE IF tok.k = "num" /\ tok.v >= 100
         THEN <<Tok("lit", tok.v \div 100), Tok("tail", tok.v % 100)>>
         ELSE <<tok>>

RECURSIVE Expand(_)
Expand(s) == IF s = <<>> THEN <<>> ELSE ExpandTok(Head(s)) \o Expand(Tail(s))

\* The indices from i on at which P holds, in order.
RECURSIVE IndicesFrom(_, _, _)
IndicesFrom(P(_, _), s, i) ==
    IF i > Len(s) THEN <<>>
    ELSE IF P(s, i) THEN <<i>> \o IndicesFrom(P, s, i + 1)
    ELSE IndicesFrom(P, s, i + 1)

\* One match of time_re at hour numeral p of g: where it starts and ends,
\* its am/pm marker, its minute, and what is left of a longer token that
\* only begins with K_HOUR.
TimeMatch(g, p) ==
    LET ampm == IF p > 1 /\ g[p - 1].k \in {"am", "pm"} /\ g[p].k = "num"
                THEN g[p - 1].k ELSE "no"
        withMin == /\ g[p + 1].k = "hour"
                   /\ p + 3 <= Len(g)
                   /\ IsShortNum(g[p + 2])
                   /\ g[p + 3].k = "min"
    IN  [start |-> IF ampm = "no" THEN p ELSE p - 1,
         end |-> IF withMin THEN p + 3 ELSE p + 1,
         ampm |-> ampm,
         hour |-> Trail2(g[p]),
         minute |-> IF withMin THEN g[p + 2].v ELSE 0,
         rest |-> IF g[p + 1].k = "hours" THEN <<"gan">>
                  ELSE IF g[p + 1].k = "exam" THEN <<"heom">>
                  ELSE IF g[p + 1].k = "examuntil" THEN <<"heom", "until">> ELSE <<>>]

RECURSIVE TimeMatchesAt(_, _, _)
TimeMatchesAt(g, idx, k) ==
    IF k > Len(idx) THEN <<>>
    ELSE <<TimeMatch(g, idx[k])>> \o TimeMatchesAt(g, idx, k + 1)

\* list(time_re.finditer(g))
TimeMatches(g) == TimeMatchesAt(g, IndicesFrom(HourAt, g, 1), 1)

\* The am/pm rules of both extractors.
Hour24(m) ==
    IF m.ampm = "pm" /\ m.hour < 12 THEN m.hour + 12
    ELSE IF m.ampm = "am" /\ m.hour = 12 THEN 0
    ELSE m.hour

\* CarryHour with an equal hour not carried.
CarryHourStrict(m, prev) ==
    IF m.ampm = "no" /\ prev # -1 /\ Hour24(m) < prev /\ Hour24(m) < 12
    THEN Hour24(m) + 12 ELSE Hour24(m)

\* The carry of parse_events_korean: prev is -1 before the first hour.
CarryHour(m, prev) ==
    LET h == Hour24(m)
    IN  IF m.ampm = "no" /\ prev # -1 /\ h <= prev /\ h < 12 THEN h + 12 ELSE h

\* The text between match t and the next match (or the end of g).
TitleSpan(g, ms, t) ==
    LET last == IF t < Len(ms) THEN ms[t + 1].start - 1 ELSE Len(g)
        toks == SubSeq(g, ms[t].end + 1, last)
    IN  IF ms[t].rest = <<>> THEN AtomsOf(toks)
        ELSE IF toks = <<>> THEN ms[t].rest
        ELSE ms[t].rest \o <<" ">> \o AtomsOf(toks)

\* datetime.replace(hour=, minute=) raises outside 0..23 and 0..59.
ValidClock(hh, mm) == hh \in 0..23 /\ mm \in 0..59

\* The loop over the time matches of one segment, with the carry.
RECURSIVE SegmentLoop(_, _, _, _, _)
SegmentLoop(g, ms, t, prev, day) ==
    IF t > Len(ms) THEN Events(<<>>)
    ELSE LET hh == CarryHour(ms[t], prev)
             rest == SegmentLoop(g, ms, t + 1, hh, day)
         IN  IF ~ValidClock(hh, ms[t].minute) \/ rest.st = "err" THEN Fails
             ELSE Events(<<Event(day, hh, ms[t].minute,
                                 normalize_title(TitleSpan(g, ms, t)))>> \o rest.evs)

\* DayLoop with no event for a segment without an hour.
RECURSIVE DayLoopSkipsEmpty(_, _, _, _)
DayLoopSkipsEmpty(e, idx, k, base) ==
    IF k > Len(idx) THEN Events(<<>>)
    ELSE LET last == IF k < Len(idx) THEN idx[k + 1] - 1 ELSE Len(e)
             g == SubSeq(e, idx[k] + 2, last)
             base_day == infer_date(base, Trail2(e[idx[k]]))
             here == IF base_day.st # "ok" THEN Fails
                     ELSE SegmentLoop(g, TimeMatches(g), 1, -1, base_day.v)
             rest == IF here.st = "err" THEN Fails
                     ELSE DayLoopSkipsEmpty(e, idx, k + 1, base)
         IN  IF here.st = "err" \/ rest.st = "err" THEN Fails
             ELSE Events(here.evs \o rest.evs)

\* The loop over the day matches idx of e, from the k-th on.
RECURSIVE DayLoop(_, _, _, _)
DayLoop(e, idx, k, base) ==
    IF k > Len(idx) THEN Events(<<>>)
    ELSE LET last == IF k < Len(idx) THEN idx[k + 1] - 1 ELSE Len(e)
             g == SubSeq(e, idx[k] + 2, last)
             base_day == infer_date(base, Trail2(e[idx[k]]))
             ms == TimeMatches(g)
             here == IF base_day.st # "ok" THEN Fails
                     ELSE IF ms = <<>>
                          THEN Events(<<Event(base_day.v, 9, 0,
                                              normalize_title(AtomsOf(g)))>>)
                          ELSE SegmentLoop(g, ms, 1, -1, base_day.v)
             rest == IF here.st = "err" THEN Fails ELSE DayLoop(e, idx, k + 1, base)
         IN  IF here.st = "err" \/ rest.st = "err" THEN Fails
             ELSE Events(here.evs \o rest.evs)

parse_events_korean(txt, base) ==
    LET e == Expand(NoWs(txt))
    IN  DayLoop(e, IndicesFrom(DayAt, e, 1), 1, base)

NotIso(tok) == tok.k # "iso"

\* re.sub of a four-token or two-token pattern: the matches are cut out,
\* left to right, none overlapping.
RECURSIVE CutMatches(_, _, _, _)
CutMatches(P(_, _), width, s, i) ==
    IF i > Len(s) THEN <<>>
    ELSE IF P(s, i) THEN CutMatches(P, width, s, i + width)
    ELSE <<s[i]>> \o CutMatches(P, width, s, i + 1)

\* The text without its ISO dates and its month-day mentions.
WithoutExplicitDates(txt) ==
    CutMatches(MonthDayAt, 4, Expand(SelectSeq(NoWs(txt), NotIso)), 1)

\* The loop of create_events_with_explicit_month_date: no carry.
RECURSIVE PlainLoop(_, _, _, _)
PlainLoop(g, ms, t, day) ==
    IF t > Len(ms) THEN Events(<<>>)
    ELSE LET hh == Hour24(ms[t])
             rest == PlainLoop(g, ms, t + 1, day)
         IN  IF ~ValidClock(hh, ms[t].minute) \/ rest.st = "err" THEN Fails
             ELSE Events(<<Event(day, hh, ms[t].minute,
                                 normalize_title(TitleSpan(g, ms, t)))>> \o rest.evs)

create_events_with_explicit_month_date(txt, base) ==
    LET date == parse_generic_date(txt, base)
        body == WithoutExplicitDates(txt)
        ms == TimeMatches(body)
    IN  IF date.st = "err" THEN Fails
        ELSE IF date.st = "none" THEN Events(<<>>)
        ELSE IF ms = <<>>
             THEN Events(<<Event(date.v, 9, 0, normalize_title(AtomsOf(body)))>>)
             ELSE PlainLoop(body, ms, 1, date.v)

\* create_date_only_event: None is the empty list here.
create_date_only_event(txt, base) ==
    LET target == parse_generic_date(txt, base)
        cleaned == CutMatches(DayAt, 2, WithoutExplicitDates(txt), 1)
    IN  IF target.st = "err" THEN Fails
        ELSE IF target.st = "none" THEN Events(<<>>)
        ELSE Events(<<Event(target.v, 9, 0, normalize_title(AtomsOf(cleaned)))>>)

----------------------------------------------------------------------------
(* The extractors of plan parameters.  A scalar result is None or Some(v). *)

None == <<>>

Some(v) == <<v>>

\* The goal extract_study_goal falls back to.
General == <<T("General")>>

IsChunk(tok) == tok.k \notin {"comma", "ws", "glue"}

RECURSIVE SkipWs(_, _)
SkipWs(s, i) == IF i <= Len(s) /\ IsWs(s[i]) THEN SkipWs(s, i + 1) ELSE i

\* Two chunks and the study marker follow from token i on.
TwoChunks(s, i) ==
    /\ SkipWs(s, i + 1) <= Len(s)
    /\ IsChunk(s[SkipWs(s, i + 1)])
    /\ SkipWs(s, SkipWs(s, i + 1) + 1) <= Len(s)
    /\ s[SkipWs(s, SkipWs(s, i + 1) + 1)].k = "study"

\* ([^\s,\.]+(?:\s+[^\s,\.]+)?)\s*K_STUDY matches from token i on: one
\* chunk or, tried first, two chunks before the study marker.
GoalAt(s, i) ==
    /\ IsChunk(s[i])
    /\ \/ TwoChunks(s, i)
       \/ SkipWs(s, i + 1) <= Len(s) /\ s[SkipWs(s, i + 1)].k = "study"

RECURSIVE Unruns(_)
Unruns(s) == IF s = <<>> THEN <<>> ELSE Unrun(Head(s)) \o Unruns(Tail(s))

\* match.group(1): the chunks with the whitespace between them.
extract_study_goal(txt) ==
    LET s == Runs(txt)
        i == FirstFrom(GoalAt, s, 1)
    IN  IF i = 0 THEN General
        ELSE IF TwoChunks(s, i) THEN Unruns(SubSeq(s, i, SkipWs(s, i + 1)))
        ELSE Unrun(s[i])

\* What \d+ takes at the end of the token.
TrailAll(tok) == IF tok.k = "iso" THEN IsoD(tok) ELSE tok.v

\* \d+\s*K_HOURS matches at token i
HoursAt(s, i) == i + 1 <= Len(s) /\ EndsInDigits(s[i]) /\ s[i + 1].k = "hours"

parse_daily_hours(txt) ==
    LET s == NoWs(txt)
        i == FirstFrom(HoursAt, s, 1)
    IN  IF i = 0 THEN None
        ELSE IF TrailAll(s[i]) > 0 THEN Some(TrailAll(s[i])) ELSE None

parse_study_days(txt) ==
    LET s == NoWs(txt)
        i == FirstFrom(DayAt, s, 1)
    IN  IF i = 0 THEN None
        ELSE IF Trail3(s[i]) > 0 THEN Some(Trail3(s[i])) ELSE None

\* The tokens that end in letters: [A-Za-z가-힣]{1,12} may end there.
NotLetters == {"num", "iso", "dec", "lit", "isolit", "tail", "comma", "ws", "glue", "glued"}

EndsInLetters(tok) == tok.k \notin NotLetters

\* The letters a name takes from the token: "d-day" gives "day".
NameOf(tok) == IF tok.k = "dday" THEN T("day_en") ELSE tok

\* The tokens that are letters only.
AllLetters(tok) == tok.k \notin (NotLetters \cup {"dday"})

banned == {"exam", "ctest", "study", "plan", "day", "month", "hour", "min", "hours", "perday"}

\* The float arithmetic of the amounts.  A double near the rational p/q (in
\* lowest terms) is [p, q, e, s]: the mantissa (p*2^e + s)/q over 2^e, so
\* s/(q*2^e) is its error; every operation rounds its exact result to the
\* nearest mantissa, ties to even, found with remainders of small numbers.
RECURSIVE Gcd(_, _)
Gcd(a, b) == IF b = 0 THEN a ELSE Gcd(b, a % b)

\* 2^e modulo m
RECURSIVE PowMod2(_, _)
PowMod2(e, m) ==
    IF e = 0 THEN 1 % m
    ELSE IF e % 2 = 1 THEN (2 * PowMod2(e - 1, m)) % m
    ELSE (PowMod2(e \div 2, m) * PowMod2(e \div 2, m)) % m

\* L with 2^L <= p/q < 2^(L+1)
RECURSIVE FloorLog2(_, _)
FloorLog2(p, q) ==
    IF p >= 2 * q THEN FloorLog2(p, 2 * q) + 1
    ELSE IF p < q THEN FloorLog2(2 * p, q) - 1
    ELSE 0

\* e with 2^52 <= (p/q) * 2^e < 2^53: a double near p/q is m / 2^e
BinaryExp(p, q) == 52 - FloorLog2(p, q)

RECURSIVE IsPow2(_)
IsPow2(n) == n = 1 \/ (n > 1 /\ n % 2 = 0 /\ IsPow2(n \div 2))

Float(p, q, e, s) == [p |-> p, q |-> q, e |-> e, s |-> s]

\* float(n) of a numeral
FloatOf(n) == Float(n, 1, IF n = 0 THEN 0 ELSE BinaryExp(n, 1), 0)

\* The mantissa (P*2^e - r0)/Q modulo 2.
Parity0(P, Q, e, r0) == (((P * PowMod2(e, 2 * Q)) % (2 * Q)) - r0) \div Q

\* The mantissa j0 or j0 + 1 steps above (P*2^e - r0)/Q, by the remainder.
Settle(P, Q, e, r0, j0, rem, td) ==
    Float(P, Q, e,
          (IF 2 * rem < Q * td THEN j0
           ELSE IF 2 * rem > Q * td THEN j0 + 1
           ELSE IF (Parity0(P, Q, e, r0) + j0) % 2 = 0 THEN j0 ELSE j0 + 1) * Q - r0)

\* The double at exponent e nearest to P/Q + (tn/td)/(Q*2^e).
RoundTo(P, Q, e, r0, tn, td) ==
    Settle(P, Q, e, r0, (tn + r0 * td) \div (Q * td), (tn + r0 * td) % (Q * td), td)

Norm(f) == IF f.s = 0 THEN Float(f.p, f.q, BinaryExp(f.p, f.q), 0) ELSE f

\* Below a power of two the doubles are twice as dense.
Nearest(P, Q, tn, td) ==
    IF tn < 0 /\ ((Q = 1 /\ IsPow2(P)) \/ (P = 1 /\ IsPow2(Q)))
    THEN Norm(RoundTo(P, Q, BinaryExp(P, Q) + 1,
                      (P * PowMod2(BinaryExp(P, Q) + 1, Q)) % Q, 2 * tn, td))
    ELSE Norm(RoundTo(P, Q, BinaryExp(P, Q),
                      (P * PowMod2(BinaryExp(P, Q), Q)) % Q, tn, td))

\* a / d of two numerals
FloatDiv(a, d) == Nearest(a \div Gcd(a, d), d \div Gcd(a, d), 0, 1)

Shift(s, k) == IF s = 0 THEN 0 ELSE s * 2 ^ k

MulLow(h, y, g) ==
    Nearest((h * y.p) \div g, y.q \div g, h * y.s,
            IF y.s = 0 THEN 1
            ELSE g * 2 ^ (y.e - BinaryExp((h * y.p) \div g, y.q \div g)))

\* h * y for a numeral h
FloatMul(h, y) == MulLow(h, y, Gcd(h * y.p, y.q))

AddLow(x, y, g, E) ==
    Nearest((x.p * y.q + y.p * x.q) \div g, (x.q * y.q) \div g,
            Shift(x.s * y.q, E - x.e) + Shift(y.s * x.q, E - y.e),
            IF x.s = 0 /\ y.s = 0 THEN 1
            ELSE g * 2 ^ (E - BinaryExp((x.p * y.q + y.p * x.q) \div g,
                                         (x.q * y.q) \div g)))

\* x + y
FloatAdd(x, y) ==
    IF x.p = 0 THEN y
    ELSE IF y.p = 0 THEN x
    ELSE AddLow(x, y, Gcd(x.p * y.q + y.p * x.q, x.q * y.q),
                IF x.s = 0 THEN y.e
                ELSE IF y.s = 0 THEN x.e
                ELSE IF x.e > y.e THEN x.e ELSE y.e)

DivLow(x, P, Q, g) ==
    IF BinaryExp(P, Q) >= x.e
    THEN Nearest(P, Q, Shift(x.s, BinaryExp(P, Q) - x.e), g)
    ELSE Nearest(P, Q, x.s, g * 2 ^ (x.e - BinaryExp(P, Q)))

\* x / d for a numeral d
FloatDivBy(x, d) ==
    DivLow(x, x.p \div Gcd(x.p, x.q * d), (x.q * d) \div Gcd(x.p, x.q * d),
           Gcd(x.p, x.q * d))

\* n/d in tenths, to the nearest; at a tie by the side the double is on
\* (side < 0 below, > 0 above) and to even when the double is the tie.
RoundTenths(n, d, side) ==
    IF 2 * ((10 * n) % d) > d THEN (10 * n) \div d + 1
    ELSE IF 2 * ((10 * n) % d) < d THEN (10 * n) \div d
    ELSE IF side > 0 THEN (10 * n) \div d + 1
    ELSE IF side < 0 THEN (10 * n) \div d
    ELSE IF ((10 * n) \div d) % 2 = 0 THEN (10 * n) \div d ELSE (10 * n) \div d + 1

\* f"{x:.1f}" in tenths
FormatFloat(x) == RoundTenths(x.p, x.q, x.s)

\* f"{a / dl:.1f}" in tenths
FormatQuotient(a, dl) == FormatFloat(FloatDivBy(a, dl))

\* FormatProduct with the share not multiplied by daily_hours.
FormatShareOnly(h, a, t) == FormatFloat(FloatDiv(a.p * t.q, a.q * t.p))

\* f"{h * (a / t):.1f}" in tenths.  The quotient is that of the rationals a
\* and t stand for: it is a / t itself when both are whole numbers, as the
\* weights of every sentence given to the planners are.
FormatProduct(h, a, t) == FormatFloat(FloatMul(h, FloatDiv(a.p * t.q, a.q * t.p)))

\* What \d+ takes at the start of the token.
LeadAll(tok) == IF tok.k = "iso" THEN IsoY(tok) ELSE tok.v

\* float(match.group("amount")): \d+(?:\.\d+)? takes a decimal numeral whole.
AmountOf(tok) ==
    IF tok.k = "dec" /\ tok.v > 0 THEN FloatDiv(tok.v, 10) ELSE FloatOf(LeadAll(tok))

SubjectLoad(name, amount, unit) == [name |-> name, amount |-> amount, unit |-> unit]

\* subject_re.finditer: a name, an amount and, when K_HOURS follows, a unit.
RECURSIVE SubjectMatches(_, _)
SubjectMatches(s, i) ==
    IF i + 1 > Len(s) THEN <<>>
    ELSE IF EndsInLetters(s[i]) /\ s[i + 1].k \in {"num", "iso", "dec"}
         THEN LET hours == /\ i + 2 <= Len(s)
                           /\ s[i + 1].k \in {"num", "dec"}
                           /\ s[i + 2].k = "hours"
                  load == SubjectLoad(NameOf(s[i]), AmountOf(s[i + 1]),
                                      IF hours THEN "hours" ELSE "weight")
                  rest == SubjectMatches(s, IF hours THEN i + 3 ELSE i + 2)
              IN  IF NameOf(s[i]).k \in banned \/ load.amount.p <= 0 THEN rest
                  ELSE <<load>> \o rest
         ELSE SubjectMatches(s, i + 1)

IndexOfName(merged, name) ==
    LET hits == {i \in 1..Len(merged) : merged[i].name = name}
    IN  IF hits = {} THEN 0 ELSE CHOOSE i \in hits : TRUE

\* merged[load.name]: summed amounts, "weight" once the units differ.
MergeLoad(merged, load) ==
    LET i == IndexOfName(merged, load.name)
    IN  IF i = 0 THEN Append(merged, load)
        ELSE [merged EXCEPT ![i] =
                SubjectLoad(load.name, FloatAdd(merged[i].amount, load.amount),
                            IF merged[i].unit # load.unit THEN "weight"
                            ELSE merged[i].unit)]

RECURSIVE MergeLoads(_, _, _)
MergeLoads(merged, loads, i) ==
    IF i > Len(loads) THEN merged
    ELSE MergeLoads(MergeLoad(merged, loads[i]), loads, i + 1)

parse_subject_loads(txt) == MergeLoads(<<>>, SubjectMatches(NoWs(txt), 1), 1)

SubjectAt(s, i) == s[i].k = "subject" /\ i < Len(s)

FirstN(s, n) == IF Len(s) <= n THEN s ELSE SubSeq(s, 1, n)

infer_subjects_without_amount(txt) ==
    LET s == Words(txt)
        i == FirstFrom(SubjectAt, s, 1)
    IN  IF i = 0 THEN <<>>
        ELSE FirstN(SelectSeq(SubSeq(s, i + 1, Len(s)), AllLetters), 8)

LoadNames(loads) == [i \in 1..Len(loads) |-> loads[i].name]

is_exam_distribution_request(txt) ==
    /\ Has(txt, "exam") \/ Has(txt, "ctest")
    /\ Has(txt, "dist") \/ Has(txt, "countdown") \/ Has(txt, "until") \/ Has(txt, "subject")

----------------------------------------------------------------------------
(* The planners.                                                           *)

\* int(x) of a double that is not negative
IntOf(x) == IF x.p % x.q = 0 /\ x.s < 0 THEN x.p \div x.q - 1 ELSE x.p \div x.q

\* ConceptsEnd rounded up.
ConceptsEndCeil(days) == (days * 6 + 9) \div 10

\* int(days * 0.6)
ConceptsEnd(days) == IntOf(FloatMul(days, FloatDiv(6, 10)))

\* int(days * 0.85)
PracticeEnd(days) == IntOf(FloatMul(days, FloatDiv(85, 100)))

\* Phase with the two thresholds taken one day late.
PhaseLate(i, concepts_end, practice_end) ==
    IF i <= concepts_end THEN "Concepts"
    ELSE IF i <= practice_end THEN "Practice"
    ELSE "Review"

\* The phase of the session i, the two thresholds computed once per plan.
Phase(i, concepts_end, practice_end) ==
    IF i < concepts_end THEN "Concepts"
    ELSE IF i < practice_end THEN "Practice"
    ELSE "Review"

\* f"Study {goal} - {phase} ({daily_hours:g}h)"
StudyTitle(goal, phase, daily_hours) ==
    <<"Study", " ">> \o AtomsOf(goal) \o
    <<" ", "-", " ", phase, " ", "(", ToString(daily_hours), "h", ")">>

\* for i in range(days): one session at 20:00 on start_date + i
Sessions(goal, days, daily_hours, start_date, concepts_end, practice_end) ==
    [k \in 1..days |->
        Event(AddDays(start_date, k - 1), 20, 0,
              StudyTitle(goal, Phase(k - 1, concepts_end, practice_end),
                         daily_hours))]

\* create_study_plan_events with the plan starting on the day of `now`.
create_study_plan_events_from_today(goal, days, daily_hours, base) ==
    Sessions(goal, days, daily_hours, base, ConceptsEnd(days), PracticeEnd(days))

create_study_plan_events(goal, days, daily_hours, base) ==
    Sessions(goal, days, daily_hours, AddDays(base, 1),
             ConceptsEnd(days), PracticeEnd(days))

\* if days > 180: days = 180
MaxPlanDays == 180

\* \d{1,2}\s*K_HOURS of make_study_plan_from_text
PlanHours(s) ==
    LET i == FirstFrom(HoursAt, s, 1) IN IF i = 0 THEN None ELSE Some(Trail2(s[i]))

\* make_study_plan_from_text with the numerals of the sentence taken as read.
make_study_plan_unclamped(txt, base) ==
    LET s == NoWs(txt)
        d == FirstFrom(DayAt, s, 1)
        h == PlanHours(s)
    IN  Events(create_study_plan_events(
                   extract_study_goal(txt),
                   IF d = 0 THEN 7 ELSE Trail3(s[d]),
                   IF h = None THEN 2 ELSE h[1],
                   base))

make_study_plan_from_text(txt, base) ==
    LET s == NoWs(txt)
        d == FirstFrom(DayAt, s, 1)
        h == PlanHours(s)
        days == IF d = 0 THEN 7 ELSE Trail3(s[d])
        hours == IF h = None THEN 2 ELSE h[1]
    IN  Events(create_study_plan_events(
                   extract_study_goal(txt),
                   IF days < 1 THEN 1 ELSE IF days > MaxPlanDays THEN MaxPlanDays ELSE days,
                   IF hours <= 0 THEN 1 ELSE hours,
                   base))

\* K_PER_DAY\s*\d+\s*K_HOURS matches at token i
PerDayHoursAt(s, i) ==
    /\ i + 2 <= Len(s)
    /\ s[i].k = "perday"
    /\ s[i + 1].k = "num"
    /\ s[i + 2].k = "hours"

\* f"{hours:.1f}"
OneDecimal(t) == <<ToString(t \div 10), ".", ToString(t % 10)>>

\* sum(load.amount for load in loads), over the first n loads
RECURSIVE SumAmounts(_, _)
SumAmounts(loads, n) ==
    IF n = 0 THEN FloatOf(0)
    ELSE FloatAdd(SumAmounts(loads, n - 1), loads[n].amount)

HasHours(loads) == \E i \in 1..Len(loads) : loads[i].unit = "hours"

\* f"{name} {hours:.1f}h"
AllocOne(name, t) == <<TokStr(name), " ">> \o OneDecimal(t) \o <<"h">>

\* " | ".join(f"{name} {hours:.1f}h" ...)
RECURSIVE AllocText(_, _, _, _)
AllocText(loads, daily_hours, days_left, i) ==
    IF i > Len(loads) THEN <<>>
    ELSE AllocOne(loads[i].name,
                  IF HasHours(loads)
                  THEN FormatQuotient(loads[i].amount, days_left)
                  ELSE FormatProduct(daily_hours, loads[i].amount,
                                     SumAmounts(loads, Len(loads))))
         \o (IF i = Len(loads) THEN <<>>
             ELSE <<" ", "|", " ">> \o AllocText(loads, daily_hours, days_left, i + 1))

\* The loads of the plan: by amount, else by name after K_SUBJECT, else General.
PlanLoads(txt) ==
    LET loads == parse_subject_loads(txt)
        names == infer_subjects_without_amount(txt)
    IN  IF loads # <<>> THEN loads
        ELSE IF names # <<>>
             THEN [i \in 1..Len(names) |-> SubjectLoad(names[i], FloatOf(1), "weight")]
             ELSE <<SubjectLoad(T("General"), FloatOf(1), "weight")>>

\* for offset in range(1, days_left + 1): one session at 20:00
CountdownFrom(base, days_left, daily_hours, loads) ==
    LET alloc == AllocText(loads, daily_hours, days_left, 1)
    IN  [offset \in 1..days_left |->
            Event(AddDays(base, offset), 20, 0,
                  <<"Exam", " ", "D", "-", ToString(days_left - offset), ":", " ">>
                  \o alloc)]

\* daily_hours: what follows K_PER_DAY, 3.0 without it, 2.0 when not positive
DailyHours(txt) ==
    LET s == NoWs(txt)
        h == FirstFrom(PerDayHoursAt, s, 1)
        hours == IF h = 0 THEN 3 ELSE s[h + 1].v
    IN  IF hours <= 0 THEN 2 ELSE hours

create_exam_countdown_plan(txt, base) ==
    LET exam_dt == parse_exam_date(txt, base)
        days_left == DaysBetween(exam_dt.v, base)
    IN  IF exam_dt.st = "err" THEN Fails
        ELSE IF exam_dt.st = "none" THEN Events(<<>>)
        ELSE IF days_left <= 0 THEN Events(<<>>)
        ELSE Events(
                CountdownFrom(base, days_left, DailyHours(txt), PlanLoads(txt))
                \o <<Event(exam_dt.v, 9, 0,
                           <<"Exam", " ", "Day", " ", "(", ToString(exam_dt.v.y), "-">>
                           \o Pad2(exam_dt.v.m) \o <<"-">> \o Pad2(exam_dt.v.d)
                           \o <<")">>)>>)

----------------------------------------------------------------------------
(* The dispatcher and the days-left query.                                 *)

\* handle_ask up to its insert_events: the branch taken, the kind returned,
\* and the events the branch hands to insert_events.
Routed(route, kind, res) == [route |-> route, kind |-> kind, st |-> res.st, evs |-> res.evs]

\* handle_ask from `if has_date_hint and has_time_hint` on; date_only is what
\* create_date_only_event returns when the date hint is there.
ScheduleByDay(normalized, base, has_date_hint, has_time_hint, date_only) ==
    IF has_date_hint /\ has_time_hint
    THEN Routed("day_hour", "schedule", parse_events_korean(normalized, base))
    ELSE IF has_date_hint /\ (date_only.st = "err" \/ date_only.evs # <<>>)
    THEN Routed("day_only", "schedule", date_only)
    ELSE Routed("unknown", "unknown", Events(<<>>))

\* handle_ask from `if has_explicit_month_day` on; explicit is what
\* create_events_with_explicit_month_date returns when the hint is there.
ScheduleByDate(normalized, base, has_date_hint, has_time_hint, has_explicit_month_day, explicit) ==
    IF has_explicit_month_day /\ (explicit.st = "err" \/ explicit.evs # <<>>)
    THEN Routed("explicit_date", "schedule", explicit)
    ELSE ScheduleByDay(normalized, base, has_date_hint, has_time_hint,
                       IF has_date_hint
                       THEN create_date_only_event(normalized, base)
                       ELSE Events(<<>>))

\* handle_ask with the study test ahead of the exam trigger.
HandleAskStudyFirst(txt, base) ==
    LET normalized == Strip(txt)
        s == NoWs(normalized)
        is_study_request == Has(s, "study") \/ Has(s, "plan")
        has_date_hint == FirstFrom(DayAt, s, 1) # 0
        has_time_hint == FirstFrom(HourAt, s, 1) # 0
        has_explicit_month_day ==
            FirstFrom(MonthDayAt, s, 1) # 0 \/ FirstFrom(IsoAt, s, 1) # 0
    IN  IF is_study_request
        THEN Routed("study_plan", "study_plan", make_study_plan_from_text(normalized, base))
        ELSE IF is_exam_distribution_request(normalized)
        THEN Routed("exam_plan", "exam_plan", create_exam_countdown_plan(normalized, base))
        ELSE ScheduleByDate(normalized, base, has_date_hint, has_time_hint,
                            has_explicit_month_day,
                            IF has_explicit_month_day
                            THEN create_events_with_explicit_month_date(normalized, base)
                            ELSE Events(<<>>))

handle_ask(txt, base) ==
    LET normalized == Strip(txt)
        s == NoWs(normalized)
        is_study_request == Has(s, "study") \/ Has(s, "plan")
        has_date_hint == FirstFrom(DayAt, s, 1) # 0
        has_time_hint == FirstFrom(HourAt, s, 1) # 0
        has_explicit_month_day ==
            FirstFrom(MonthDayAt, s, 1) # 0 \/ FirstFrom(IsoAt, s, 1) # 0
    IN  IF is_exam_distribution_request(normalized)
        THEN Routed("exam_plan", "exam_plan", create_exam_countdown_plan(normalized, base))
        ELSE IF is_study_request
        THEN Routed("study_plan", "study_plan", make_study_plan_from_text(normalized, base))
        ELSE ScheduleByDate(normalized, base, has_date_hint, has_time_hint,
                            has_explicit_month_day,
                            IF has_explicit_month_day
                            THEN create_events_with_explicit_month_date(normalized, base)
                            ELSE Events(<<>>))

\* f"{target:%Y-%m-%d}"
DateText(dt) == <<ToString(dt.y), "-">> \o Pad2(dt.m) \o <<"-">> \o Pad2(dt.d)

\* The sentence for a target today taken for one ahead.
DaysLeftMessageNoToday(days, target) ==
    IF days >= 0
    THEN DateText(target) \o <<"kkaji", " ", ToString(days), "il", " ", "namasseoyo",
                               ".", " ", "(", "D", "-", ToString(days), ")">>
    ELSE DateText(target) \o <<" ", "gijun", " ", ToString(-days), "il", " ",
                               "jinasseoyo", ".", " ", "(", "D", "+", ToString(-days), ")">>

\* The three sentences of parse_days_left_query, their words romanized.
DaysLeftMessage(days, target) ==
    IF days > 0
    THEN DateText(target) \o <<"kkaji", " ", ToString(days), "il", " ", "namasseoyo",
                               ".", " ", "(", "D", "-", ToString(days), ")">>
    ELSE IF days = 0
    THEN DateText(target) \o <<" ", "oneulimnida", ".", " ", "(", "D", "-", "Day", ")">>
    ELSE DateText(target) \o <<" ", "gijun", " ", ToString(-days), "il", " ",
                               "jinasseoyo", ".", " ", "(", "D", "+", ToString(-days), ")">>

\* parse_days_left_query: "none", "err", or "ok" with the signed day count,
\* the target and the sentence returned.
Reply(st, days, target) ==
    [st |-> st, days |-> days, target |-> target,
     msg |-> IF st = "ok" THEN DaysLeftMessage(days, target) ELSE <<>>]

parse_days_left_query(txt, base) ==
    LET looks_like_query == Has(txt, "howmany") \/ Has(txt, "remain") \/ Has(txt, "dday")
        target == parse_generic_date(txt, base)
    IN  IF ~looks_like_query THEN Reply("none", 0, NoDate)
        ELSE IF target.st # "ok" THEN Reply(target.st, 0, NoDate)
        ELSE Reply("ok", DaysBetween(target.v, base), target.v)

----------------------------------------------------------------------------
(* The chat memory.  An absent field is the empty sequence, a present      *)
(* scalar field a one-element sequence; subjects is the list itself.       *)

\* ChatMemory()
EmptyMemory ==
    [exam_date |-> None, subjects |-> <<>>, daily_hours |-> None,
     study_goal |-> None, study_days |-> None]

\* chat_memory_to_dict, as save_chat_memory writes it: the exam date in ISO
\* form, here the number yyyymmdd.
chat_memory_to_dict(mem) ==
    [exam_date |-> IF mem.exam_date = None THEN None
                   ELSE Some(10000 * mem.exam_date[1].y + 100 * mem.exam_date[1].m
                             + mem.exam_date[1].d),
     subjects |-> mem.subjects,
     daily_hours |-> mem.daily_hours,
     study_goal |-> mem.study_goal,
     study_days |-> mem.study_days]

\* dict_to_chat_memory on what load_chat_memory reads back: a date that
\* fromisoformat rejects, a blank goal and blank subject names are dropped.
dict_to_chat_memory(data) ==
    LET v == data.exam_date[1]
        NotBlank(name) == name.k # "ws"
    IN  [exam_date |-> IF data.exam_date = None THEN None
                       ELSE IF ValidDate(v \div 10000, (v \div 100) % 100, v % 100)
                       THEN Some([y |-> v \div 10000, m |-> (v \div 100) % 100, d |-> v % 100])
                       ELSE None,
         subjects |-> SelectSeq(data.subjects, NotBlank),
         daily_hours |-> data.daily_hours,
         study_goal |-> IF data.study_goal = None \/ NoWs(data.study_goal[1]) = <<>>
                        THEN None ELSE data.study_goal,
         study_days |-> data.study_days]

\* update_chat_memory writing daily_hours also when the text has none.
UpdateClearsHours(mem, txt, base) ==
    LET exam_dt == parse_exam_date(txt, base)
        daily_hours == parse_daily_hours(txt)
        study_days == parse_study_days(txt)
        goal == extract_study_goal(txt)
        loads == parse_subject_loads(txt)
        names == infer_subjects_without_amount(txt)
    IN  IF exam_dt.st = "err" THEN [st |-> "err", mem |-> mem]
        ELSE [st |-> "ok",
              mem |->
                [exam_date |-> IF exam_dt.st = "ok" THEN Some(exam_dt.v) ELSE mem.exam_date,
                 daily_hours |-> daily_hours,
                 study_days |-> IF study_days # None /\ (Has(txt, "study") \/ Has(txt, "plan"))
                                THEN study_days ELSE mem.study_days,
                 study_goal |-> IF goal # General THEN Some(goal) ELSE mem.study_goal,
                 subjects |-> IF loads # <<>> THEN LoadNames(loads)
                              ELSE IF names # <<>> THEN names
                              ELSE mem.subjects]]

\* update_chat_memory adopting a day count from any sentence.
UpdateAdoptsAnyDays(mem, txt, base) ==
    LET exam_dt == parse_exam_date(txt, base)
        daily_hours == parse_daily_hours(txt)
        study_days == parse_study_days(txt)
        goal == extract_study_goal(txt)
        loads == parse_subject_loads(txt)
        names == infer_subjects_without_amount(txt)
    IN  IF exam_dt.st = "err" THEN [st |-> "err", mem |-> mem]
        ELSE [st |-> "ok",
              mem |->
                [exam_date |-> IF exam_dt.st = "ok" THEN Some(exam_dt.v) ELSE mem.exam_date,
                 daily_hours |-> IF daily_hours # None THEN daily_hours ELSE mem.daily_hours,
                 study_days |-> IF study_days # None THEN study_days ELSE mem.study_days,
                 study_goal |-> IF goal # General THEN Some(goal) ELSE mem.study_goal,
                 subjects |-> IF loads # <<>> THEN LoadNames(loads)
                              ELSE IF names # <<>> THEN names
                              ELSE mem.subjects]]

\* update_chat_memory: the memory after the call; "err" when
\* parse_exam_date raises, before any field is written.
update_chat_memory(mem, txt, base) ==
    LET exam_dt == parse_exam_date(txt, base)
        daily_hours == parse_daily_hours(txt)
        study_days == parse_study_days(txt)
        goal == extract_study_goal(txt)
        loads == parse_subject_loads(txt)
        names == infer_subjects_without_amount(txt)
    IN  IF exam_dt.st = "err" THEN [st |-> "err", mem |-> mem]
        ELSE [st |-> "ok",
              mem |->
                [exam_date |-> IF exam_dt.st = "ok" THEN Some(exam_dt.v) ELSE mem.exam_date,
                 daily_hours |-> IF daily_hours # None THEN daily_hours ELSE mem.daily_hours,
                 study_days |-> IF study_days # None /\ (Has(txt, "study") \/ Has(txt, "plan"))
                                THEN study_days ELSE mem.study_days,
                 study_goal |-> IF goal # General THEN Some(goal) ELSE mem.study_goal,
                 subjects |-> IF loads # <<>> THEN LoadNames(loads)
                              ELSE IF names # <<>> THEN names
                              ELSE mem.subjects]]

\* f", {month}K_MONTH {day}K_DAY K_EXAM K_UNTIL"
ExamClause(mem) ==
    <<T("comma"), Num(mem.exam_date[1].m), T("glue"), T("month"),
      Num(mem.exam_date[1].d), T("glue"), T("day"), T("examuntil")>>

\* " ".join(f"{name} 1" for name in subjects)
RECURSIVE NameOnes(_)
NameOnes(names) ==
    IF names = <<>> THEN <<>> ELSE <<Head(names), Num(1)>> \o NameOnes(Tail(names))

SubjectsClause(mem) == <<T("comma")>> \o NameOnes(mem.subjects)

\* f", {K_PER_DAY} {daily_hours:g}{K_HOURS}"
HoursClause(mem) ==
    <<T("comma"), T("perday"), Num(mem.daily_hours[1]), T("glue"), T("hours")>>

\* f", {study_days}{K_DAY}"
DaysClause(mem) == <<T("comma"), Num(mem.study_days[1]), T("glue"), T("day")>>

\* The exam-distribution branch of apply_chat_memory.
ApplyExam(merged, mem) ==
    LET m1 == IF ~has_explicit_exam_date(merged) /\ mem.exam_date # None
              THEN merged \o ExamClause(mem) ELSE merged
        m2 == IF /\ parse_subject_loads(m1) = <<>>
                 /\ infer_subjects_without_amount(m1) = <<>>
                 /\ mem.subjects # <<>>
              THEN m1 \o SubjectsClause(mem) ELSE m1
    IN  IF parse_daily_hours(m2) = None /\ mem.daily_hours # None
        THEN m2 \o HoursClause(mem) ELSE m2

\* The study branch with a default day count filled in for an empty field.
ApplyStudyDefaultDays(merged, mem) ==
    LET m1 == IF mem.study_goal # None /\ extract_study_goal(merged) = General
              THEN mem.study_goal[1] \o merged ELSE merged
        m2 == IF parse_study_days(m1) = None
              THEN m1 \o DaysClause([study_days |->
                                        IF mem.study_days # None THEN mem.study_days
                                        ELSE Some(14)])
              ELSE m1
    IN  IF parse_daily_hours(m2) = None /\ mem.daily_hours # None
        THEN m2 \o HoursClause(mem) ELSE m2

\* The study branch of apply_chat_memory.
ApplyStudy(merged, mem) ==
    LET m1 == IF mem.study_goal # None /\ extract_study_goal(merged) = General
              THEN mem.study_goal[1] \o merged ELSE merged
        m2 == IF parse_study_days(m1) = None /\ mem.study_days # None
              THEN m1 \o DaysClause(mem) ELSE m1
    IN  IF parse_daily_hours(m2) = None /\ mem.daily_hours # None
        THEN m2 \o HoursClause(mem) ELSE m2

apply_chat_memory(txt, mem) ==
    LET merged == Strip(txt)
        m1 == IF is_exam_distribution_request(merged) THEN ApplyExam(merged, mem)
              ELSE merged
    IN  IF Has(m1, "study") \/ Has(m1, "plan") THEN ApplyStudy(m1, mem) ELSE m1

----------------------------------------------------------------------------
(* Sentences the specifications feed to the program: concatenations of at  *)
(* a bounded number of phrases.                                            *)

RECURSIVE Concat(_)
Concat(ps) == IF ps = <<>> THEN <<>> ELSE Head(ps) \o Concat(Tail(ps))

Sentences(phrases, max) ==
    {Concat(ps) : ps \in UNION {[1..n -> phrases] : n \in 0..max}}

----------------------------------------------------------------------------
(* Specification SpecStore: the event store under insert_events, the two   *)
(* edit handlers, remove_event and the notifier's update.                  *)

StoreDays == {[y |-> 2026, m |-> 11, d |-> 20], [y |-> 2026, m |-> 11, d |-> 21]}

StoreTitles == {<<"A">>, <<"a", "-">>, <<"b">>}

StoreEvents == {Event(day, 9, 0, title) : day \in StoreDays, title \in StoreTitles}

EventLists == UNION {[1..n -> StoreEvents] : n \in 0..MaxList}

InitStore ==
    /\ events = <<>>
    /\ nextId = 1
    /\ memory = EmptyMemory
    /\ saved = chat_memory_to_dict(EmptyMemory)
    /\ now = [y |-> 2026, m |-> 11, d |-> 3]
    /\ text = <<>>
    /\ result = <<>>
    /\ pc = "init"

\* insert_events(events)
InsertEventsCall ==
    \E evs \in EventLists :
        /\ nextId + Len(evs) <= MaxRows + 1
        /\ LET st == insert_events([rows |-> events, next |-> nextId], evs)
           IN  /\ events' = st.rows
               /\ nextId' = st.next
        /\ pc' = "insert_events"
        /\ UNCHANGED <<memory, saved, now, text, result>>

\* PUT /api/events/<id>: a title and a well-formed date and clock are given.
api_edit_event ==
    \E id \in 1..MaxRows, ev \in StoreEvents :
        /\ events' = UpdateRow(events, id, ev)
        /\ pc' = (IF HasId(events, id) THEN "api_edit_ok" ELSE "api_edit_404")
        /\ UNCHANGED <<nextId, memory, saved, now, text, result>>

\* The Save button of the GUI's edit dialog, opened on a stored row.
on_save ==
    \E id \in 1..MaxRows, ev \in StoreEvents :
        /\ HasId(events, id)
        /\ events' = UpdateRow(events, id, ev)
        /\ pc' = "gui_edit"
        /\ UNCHANGED <<nextId, memory, saved, now, text, result>>

\* remove_event(event_id)
RemoveEventCall ==
    \E id \in 1..MaxRows :
        /\ events' = DeleteRow(events, id)
        /\ pc' = (IF HasId(events, id) THEN "removed" ELSE "not_found")
        /\ UNCHANGED <<nextId, memory, saved, now, text, result>>

\* One poll of a notifier loop: the pending rows whose time lies in the
\* poll's window (any set of them, the clock's seconds being left open)
\* are alerted and marked.
NotifierPoll ==
    \E ids \in SUBSET PendingIds(events) :
        /\ ids # {}
        /\ events' = MarkNotified(events, ids)
        /\ pc' = "poll"
        /\ UNCHANGED <<nextId, memory, saved, now, text, result>>

NextStore ==
    \/ InsertEventsCall
    \/ api_edit_event
    \/ on_save
    \/ RemoveEventCall
    \/ NotifierPoll

SpecStore == InitStore /\ [][NextStore]_vars

\* C1: no two stored rows have both the same calendar day and the same
\* normalized title key.
C1_NoDuplicateRows ==
    \A i, j \in 1..Len(events) :
        (/\ i # j
         /\ day_key(events[i].day) = day_key(events[j].day)
         /\ title_key(events[i].title) = title_key(events[j].title)) => FALSE

----------------------------------------------------------------------------
(* Specification SpecResubmit: one list of events is given to              *)
(* insert_events twice, notifier polls running in between, from every      *)
(* store of up to MaxStored rows (duplicates included: an edit makes       *)
(* them).                                                                  *)

StoredRows == {Row(0, ev, 1) : ev \in StoreEvents}

WithIds(rows) == [i \in 1..Len(rows) |-> [rows[i] EXCEPT !.id = i]]

InitialStores == UNION {{WithIds(f) : f \in [1..n -> StoredRows]} : n \in 0..MaxStored}

InitResubmit ==
    /\ events \in InitialStores
    /\ nextId = Len(events) + 1
    /\ text \in EventLists
    /\ memory = EmptyMemory
    /\ saved = chat_memory_to_dict(EmptyMemory)
    /\ now = [y |-> 2026, m |-> 11, d |-> 3]
    /\ result = [rows |-> 0, marked |-> FALSE]
    /\ pc = "start"

\* Whether row r is the stored row of one of the events of evs.
RowOfList(r, evs) ==
    \E k \in 1..Len(evs) :
        /\ day_key(r.day) = day_key(evs[k].day)
        /\ title_key(r.title) = title_key(evs[k].title)

SubmitFirst ==
    /\ pc = "start"
    /\ LET st == insert_events([rows |-> events, next |-> nextId], text)
       IN  /\ events' = st.rows
           /\ nextId' = st.next
           /\ result' = [rows |-> Len(st.rows), marked |-> FALSE]
    /\ pc' = "first"
    /\ UNCHANGED <<memory, saved, now, text>>

PollBetween ==
    /\ pc = "first"
    /\ \E ids \in SUBSET PendingIds(events) :
        /\ ids # {}
        /\ events' = MarkNotified(events, ids)
        /\ result' = [result EXCEPT !.marked =
                        \E i \in 1..Len(events) :
                            events[i].id \in ids /\ RowOfList(events[i], text)]
    /\ pc' = "polled"
    /\ UNCHANGED <<nextId, memory, saved, now, text>>

SubmitSecond ==
    /\ pc \in {"first", "polled"}
    /\ LET st == insert_events([rows |-> events, next |-> nextId], text)
       IN  /\ events' = st.rows
           /\ nextId' = st.next
    /\ pc' = "second"
    /\ UNCHANGED <<memory, saved, now, text, result>>

NextResubmit == SubmitFirst \/ PollBetween \/ SubmitSecond

SpecResubmit == InitResubmit /\ [][NextResubmit]_vars

RowsOfEvent(rows, ev) ==
    {i \in 1..Len(rows) :
        /\ day_key(rows[i].day) = day_key(ev.day)
        /\ title_key(rows[i].title) = title_key(ev.title)}

\* C2: after the second submission of the same list there is exactly one
\* stored row per (calendar day, normalized title) pair of the list, the
\* second submission has added no row, and every such row has notified = 0.
C2_ResubmitIdempotent ==
    pc = "second" =>
        /\ Len(events) = result.rows
        /\ \A k \in 1..Len(text) :
            /\ Cardinality(RowsOfEvent(events, text[k])) = 1
            /\ \A i \in RowsOfEvent(events, text[k]) : events[i].notified = 0

\* A second submission of a list of two events of one pair, a row of which
\* was marked notified in between.
C2_Witness ==
    /\ pc = "second"
    /\ result.marked
    /\ Len(text) = 2
    /\ title_key(text[1].title) = title_key(text[2].title)
    /\ text[1].title # text[2].title
    /\ day_key(text[1].day) = day_key(text[2].day)

----------------------------------------------------------------------------
(* Specification SpecDate: infer_date on every reference date of two       *)
(* years (one of them a leap year) and every day number 1..31.             *)

RefYears == {2024, 2025}

RefDates ==
    {[y |-> y, m |-> m, d |-> d] :
        y \in RefYears, m \in 1..12, d \in 1..31} \cap
    {dt \in [y : RefYears, m : 1..12, d : 1..31] : ValidDate(dt.y, dt.m, dt.d)}

InitDate ==
    /\ now \in RefDates
    /\ text \in 1..31
    /\ events = <<>>
    /\ nextId = 1
    /\ memory = EmptyMemory
    /\ saved = chat_memory_to_dict(EmptyMemory)
    /\ result = Absent
    /\ pc = "start"

InferDateCall ==
    /\ pc = "start"
    /\ result' = infer_date(now, text)
    /\ pc' = "infer_date"
    /\ UNCHANGED <<events, nextId, memory, saved, now, text>>

NextDate == InferDateCall

SpecDate == InitDate /\ [][NextDate]_vars

\* C4: for a day number D that exists in R's month, infer_date(R, D)
\* returns a date not before R: day D of R's month when that is not before
\* R, otherwise day D of the following month (January of the next year
\* after December).
C4_InferDateNotBefore ==
    (pc = "infer_date" /\ text <= DaysInMonth(now.y, now.m)) =>
        /\ result.st = "ok"
        /\ ~DateLess(result.v, now)
        /\ result.v.d = text
        /\ IF text >= now.d
           THEN result.v.y = now.y /\ result.v.m = now.m
           ELSE IF now.m = 12
                THEN result.v.y = now.y + 1 /\ result.v.m = 1
                ELSE result.v.y = now.y /\ result.v.m = now.m + 1

----------------------------------------------------------------------------
(* Specification SpecParse: each core entry point called once on a        *)
(* sentence, numerals in and out of calendar and clock range included.     *)

ParsePhrases ==
    {<<Num(15), T("day")>>, <<Num(32), T("day")>>,
     <<Num(9), T("hour")>>, <<Num(25), T("hour")>>,
     <<Num(61), T("min")>>, <<Num(13), T("month")>>,
     <<Tok("word", 4)>>, <<T("exam"), T("until")>>, <<T("howmany")>>}

ParseDates == {[y |-> 2026, m |-> 11, d |-> 3], [y |-> 2026, m |-> 1, d |-> 31]}

InitParse ==
    /\ events = <<>>
    /\ nextId = 1
    /\ memory = EmptyMemory
    /\ saved = chat_memory_to_dict(EmptyMemory)
    /\ now \in ParseDates
    /\ text \in Sentences(ParsePhrases, MaxLen)
    /\ result = [st |-> "none"]
    /\ pc = "start"

Returned(name, res) ==
    /\ pc = "start"
    /\ pc' = name
    /\ result' = res
    /\ UNCHANGED <<memory, saved, now, text>>

ParseEventsCall ==
    /\ Returned("parse_events_korean", parse_events_korean(text, now))
    /\ UNCHANGED <<events, nextId>>

ExplicitDateCall ==
    /\ Returned("create_events_with_explicit_month_date",
                create_events_with_explicit_month_date(text, now))
    /\ UNCHANGED <<events, nextId>>

DateOnlyCall ==
    /\ Returned("create_date_only_event", create_date_only_event(text, now))
    /\ UNCHANGED <<events, nextId>>

ExamPlanCall ==
    /\ Returned("create_exam_countdown_plan", create_exam_countdown_plan(text, now))
    /\ UNCHANGED <<events, nextId>>

DaysLeftCall ==
    /\ Returned("parse_days_left_query", parse_days_left_query(text, now))
    /\ UNCHANGED <<events, nextId>>

\* handle_ask with its insert_events; nothing is stored when the branch raises.
HandleAskCall ==
    \E r \in {handle_ask(text, now)} :
        \E st \in {IF r.st = "ok"
                   THEN insert_events([rows |-> events, next |-> nextId], r.evs)
                   ELSE [rows |-> events, next |-> nextId]} :
            /\ Returned("handle_ask", r)
            /\ events' = st.rows
            /\ nextId' = st.next

NextParse ==
    \/ ParseEventsCall
    \/ ExplicitDateCall
    \/ DateOnlyCall
    \/ ExamPlanCall
    \/ DaysLeftCall
    \/ HandleAskCall

SpecParse == InitParse /\ [][NextParse]_vars

\* C3: no core entry point raises: every call comes back with a result,
\* also on a sentence whose numerals are outside calendar or clock range.
C3_EntryPointsNeverRaise == result.st # "err"

----------------------------------------------------------------------------
(* Specification SpecMemory: update_chat_memory or apply_chat_memory       *)
(* called once on a sentence and a memory with any subset of its fields.   *)

MemoryFields == {"exam_date", "subjects", "daily_hours", "study_goal", "study_days"}

MemoryPhrases ==
    {<<T("study")>>, <<T("plan")>>, <<Tok("word", 1)>>, <<T("ws")>>,
     <<Num(14), T("day")>>, <<Num(32), T("day")>>,
     <<Num(12), T("month"), Num(24), T("day")>>,
     <<T("perday"), Num(2), T("hours")>>,
     <<T("exam"), T("until")>>,
     <<Tok("word", 2), Num(40)>>,
     <<T("subject"), Tok("word", 2)>>}

\* Memories as load_chat_memory or earlier sentences leave them.
Memories ==
    {[exam_date |-> e, subjects |-> s, daily_hours |-> h, study_goal |-> g,
      study_days |-> d] :
        e \in {None, Some([y |-> 2026, m |-> 11, d |-> 20])},
        s \in {<<>>, <<Tok("word", 1), Tok("word", 3)>>},
        h \in {None, Some(3)},
        g \in {None, Some(<<Tok("word", 3)>>)},
        d \in {None, Some(7)}}

InitMemory ==
    /\ events = <<>>
    /\ nextId = 1
    /\ memory \in Memories
    /\ saved = chat_memory_to_dict(memory)
    /\ now = [y |-> 2026, m |-> 11, d |-> 3]
    /\ text \in Sentences(MemoryPhrases, MaxPhrases)
    /\ result = [st |-> "none"]
    /\ pc = "start"

\* update_chat_memory(memory, text, now); a raise leaves the object as it was.
UpdateCall ==
    LET r == update_chat_memory(memory, text, now)
    IN  /\ pc = "start"
        /\ pc' = "update_chat_memory"
        /\ memory' = r.mem
        /\ result' = [st |-> r.st, before |-> memory]
        /\ UNCHANGED <<events, nextId, saved, now, text>>

\* apply_chat_memory(text, memory)
ApplyCall ==
    /\ pc = "start"
    /\ pc' = "apply_chat_memory"
    /\ result' = [st |-> "ok", out |-> apply_chat_memory(text, memory), before |-> memory]
    /\ UNCHANGED <<events, nextId, memory, saved, now, text>>

NextMemory == UpdateCall \/ ApplyCall

SpecMemory == InitMemory /\ [][NextMemory]_vars

\* The merged sentences that add to sentence s only clauses of fields the
\* memory holds: goal in front; exam date, subjects, hours, days, hours behind.
Clause(add, c) == IF add THEN c ELSE <<>>

Augmentations(s, mem) ==
    {Clause(g, IF mem.study_goal # None THEN mem.study_goal[1] ELSE <<>>) \o s
       \o Clause(e, IF mem.exam_date # None THEN ExamClause(mem) ELSE <<>>)
       \o Clause(n, IF mem.subjects # <<>> THEN SubjectsClause(mem) ELSE <<>>)
       \o Clause(h, IF mem.daily_hours # None THEN HoursClause(mem) ELSE <<>>)
       \o Clause(d, IF mem.study_days # None THEN DaysClause(mem) ELSE <<>>)
       \o Clause(k, IF mem.daily_hours # None THEN HoursClause(mem) ELSE <<>>) :
         g \in BOOLEAN, e \in BOOLEAN, n \in BOOLEAN, h \in BOOLEAN,
         d \in BOOLEAN, k \in BOOLEAN}

\* C5 as stated: apply_chat_memory adds only clauses of fields the memory
\* holds, leaves the memory as it was, and with an empty memory returns the
\* input sentence unchanged.
C5_ApplyReturnsInput ==
    pc = "apply_chat_memory" =>
        /\ memory = result.before
        /\ result.out \in Augmentations(text, memory)
        /\ memory = EmptyMemory => result.out = text

\* C5 amended: apply_chat_memory adds only clauses of fields the memory
\* holds, leaves the memory as it was, and with an empty memory returns the
\* input sentence with its leading and trailing whitespace removed.
C5_ApplyReturnsStripped ==
    pc = "apply_chat_memory" =>
        /\ memory = result.before
        /\ result.out \in Augmentations(Strip(text), memory)
        /\ memory = EmptyMemory => result.out = Strip(text)

\* A study request merged with a memory that holds some fields but no day
\* count: a clause was added, none for the days.
C5_Witness ==
    /\ pc = "apply_chat_memory"
    /\ memory.study_days = None
    /\ memory.daily_hours # None
    /\ Has(text, "study")
    /\ Len(result.out) > Len(Strip(text))

\* What the sentence yields for each field; the empty sequence when nothing.
Extracted(txt, base) ==
    LET exam_dt == parse_exam_date(txt, base)
        goal == extract_study_goal(txt)
        loads == parse_subject_loads(txt)
    IN  [exam_date |-> IF exam_dt.st = "ok" THEN Some(exam_dt.v) ELSE None,
         subjects |-> IF loads # <<>> THEN LoadNames(loads)
                      ELSE infer_subjects_without_amount(txt),
         daily_hours |-> parse_daily_hours(txt),
         study_goal |-> IF goal = General THEN None ELSE Some(goal),
         study_days |-> parse_study_days(txt)]

\* C6: after update_chat_memory each field is what it was before or the
\* value the sentence yields for it, and no field that held a value is
\* cleared.
C6_UpdateKeepsOrExtracts ==
    pc = "update_chat_memory" =>
        \A f \in MemoryFields :
            /\ \/ memory[f] = result.before[f]
               \/ /\ Extracted(text, now)[f] # <<>>
                  /\ memory[f] = Extracted(text, now)[f]
            /\ result.before[f] # <<>> => memory[f] # <<>>

\* A sentence that yields daily hours and no exam date, on a memory holding
\* both: the hours are overwritten, the exam date stays.
C6_Witness ==
    /\ pc = "update_chat_memory"
    /\ result.before.daily_hours # None
    /\ memory.daily_hours # result.before.daily_hours
    /\ memory.exam_date # None
    /\ Extracted(text, now).exam_date = None

\* C7: study_days changes only on a sentence with a study or plan marker.
C7_StudyDaysNeedMarker ==
    (pc = "update_chat_memory" /\ memory.study_days # result.before.study_days)
        => (Has(text, "study") \/ Has(text, "plan"))

\* A day mention without either marker, on a memory holding another count:
\* the count stays.
C7_Witness ==
    /\ pc = "update_chat_memory"
    /\ result.st = "ok"
    /\ ~(Has(text, "study") \/ Has(text, "plan"))
    /\ parse_study_days(text) # None
    /\ parse_study_days(text) # result.before.study_days
    /\ memory.study_days = result.before.study_days

----------------------------------------------------------------------------
(* Specification SpecAsk: handle_ask called once on a sentence that mixes  *)
(* the markers of the planners with date and time tokens.                  *)

AskPhrases ==
    {<<T("exam"), T("until")>>, <<T("ctest"), T("dist")>>, <<T("exam")>>,
     <<T("subject")>>, <<T("countdown")>>, <<T("study")>>, <<T("plan")>>,
     <<Num(5), T("day")>>, <<Num(9), T("hour")>>,
     <<Num(5), T("day"), Num(9), T("hour")>>,
     <<Num(11), T("month"), Num(6), T("day")>>, <<Tok("word", 4)>>}

InitAsk ==
    /\ events = <<>>
    /\ nextId = 1
    /\ memory = EmptyMemory
    /\ saved = chat_memory_to_dict(EmptyMemory)
    /\ now = [y |-> 2026, m |-> 11, d |-> 3]
    /\ text \in Sentences(AskPhrases, MaxLen)
    /\ result = [st |-> "none"]
    /\ pc = "start"

NextAsk == HandleAskCall

SpecAsk == InitAsk /\ [][NextAsk]_vars

\* exam or coding-test marker plus one of distribute/countdown/until/subject
ExamTrigger(txt) ==
    /\ \E i \in 1..Len(txt) : txt[i].k \in {"exam", "ctest"}
    /\ \E i \in 1..Len(txt) : txt[i].k \in {"dist", "countdown", "until", "subject"}

StudyMarker(txt) == \E i \in 1..Len(txt) : txt[i].k \in {"study", "plan"}

ExplicitHint(txt) == \E i \in 1..Len(txt) : MonthDayAt(txt, i) \/ IsoAt(txt, i)

DayHint(txt) == \E i \in 1..Len(txt) : DayAt(txt, i)

HourHint(txt) == \E i \in 1..Len(txt) : HourAt(txt, i)

\* C9: handle_ask takes the first matching rule in the order exam plan,
\* study plan, explicit date, day and hour, day only, unknown; the exam
\* trigger wins over a study marker and over date and time tokens, a study
\* marker without the exam trigger wins over day and hour tokens.
C9_FirstRuleWins ==
    pc = "handle_ask" =>
        LET s == NoWs(text)
        IN  result.route =
                IF ExamTrigger(s) THEN "exam_plan"
                ELSE IF StudyMarker(s) THEN "study_plan"
                ELSE IF ExplicitHint(s) THEN "explicit_date"
                ELSE IF DayHint(s) /\ HourHint(s) THEN "day_hour"
                ELSE IF DayHint(s) THEN "day_only"
                ELSE "unknown"

\* The exam trigger together with a study marker and a day token: the exam
\* planner ran and its sessions were stored.
C9_Witness ==
    /\ pc = "handle_ask"
    /\ ExamTrigger(text)
    /\ StudyMarker(text)
    /\ DayHint(text)
    /\ result.route = "exam_plan"
    /\ events # <<>>

----------------------------------------------------------------------------
(* Specification SpecFront: the interactive paths.  CLI `ask`, the web     *)
(* /api/ask, one turn of run_chat_mode and the GUI's send and reset work   *)
(* on one event store and one chat_memory.json; `memory` is the memory of  *)
(* the running chat or GUI session.                                        *)

FrontSentences ==
    {<<Num(20), T("day"), T("howmany")>>,
     <<Num(20), T("day"), T("howmany"), T("show")>>,
     <<Num(1), T("delete"), Num(20), T("day"), T("howmany")>>,
     <<T("howmany")>>,
     <<Num(20), T("day")>>,
     <<Num(32), T("day")>>,
     <<Tok("word", 4)>>,
     <<T("show")>>,
     <<T("w_remove"), Num(2)>>,
     <<T("w_memory"), T("w_reset")>>,
     <<T("w_memory"), T("w_load")>>,
     <<T("ws")>>}

Outcome(op, reply, asked, stored) ==
    [op |-> op, reply |-> reply, asked |-> asked, stored |-> stored]

\* The part the CLI `ask` and /api/ask share: the days-left check, then
\* handle_ask with its insert_events.
AskOutcome(reply, asked, st) == [reply |-> reply, asked |-> asked, store |-> st]

\* after handle_ask returned r
AskAsked(store, r) ==
    IF r.st = "err" THEN AskOutcome("raised", TRUE, store)
    ELSE IF r.evs = <<>> THEN AskOutcome("not_understood", TRUE, store)
    ELSE AskOutcome(r.kind, TRUE, insert_events(store, r.evs))

\* after parse_days_left_query returned d
AskChecked(txt, store, base, d) ==
    IF d.st = "err" THEN AskOutcome("raised", FALSE, store)
    ELSE IF d.st = "ok" THEN AskOutcome("days_left", FALSE, store)
    ELSE AskAsked(store, handle_ask(txt, base))

AskResult(txt, store, base) ==
    AskChecked(txt, store, base, parse_days_left_query(txt, base))

\* The part run_chat_mode and on_send share: merge, days-left check with its
\* memory update, else handle_ask and, when it stored events, the update.
\* "kept" tells whether update_chat_memory and save_chat_memory completed.
TurnOutcome(reply, asked, st, mem, kept) ==
    [reply |-> reply, asked |-> asked, store |-> st, mem |-> mem, kept |-> kept]

\* update_chat_memory(memory, enriched) returned u; save_chat_memory follows
TurnUpdated(reply, asked, st, mem, u) ==
    IF u.st = "err" THEN TurnOutcome("raised", asked, st, mem, FALSE)
    ELSE TurnOutcome(reply, asked, st, u.mem, TRUE)

\* handle_ask(enriched) returned r
TurnAsked(enriched, mem, store, base, r) ==
    IF r.st = "err" THEN TurnOutcome("raised", TRUE, store, mem, FALSE)
    ELSE IF r.evs = <<>> THEN TurnOutcome("not_understood", TRUE, store, mem, FALSE)
    ELSE TurnUpdated(r.kind, TRUE, insert_events(store, r.evs), mem,
                     update_chat_memory(mem, enriched, base))

\* parse_days_left_query(enriched) returned d
TurnChecked(enriched, mem, store, base, d) ==
    IF d.st = "err" THEN TurnOutcome("raised", FALSE, store, mem, FALSE)
    ELSE IF d.st = "ok"
    THEN TurnUpdated("days_left", FALSE, store, mem, update_chat_memory(mem, enriched, base))
    ELSE TurnAsked(enriched, mem, store, base, handle_ask(enriched, base))

\* apply_chat_memory returned enriched
TurnMerged(enriched, mem, store, base) ==
    TurnChecked(enriched, mem, store, base, parse_days_left_query(enriched, base))

TurnResult(txt, mem, store, base) ==
    TurnMerged(apply_chat_memory(txt, mem), mem, store, base)

\* remove\s+(\d+) matches at token i of the lowered input
RemoveAt(s, i) ==
    i + 1 <= Len(s) /\ s[i].k = "w_remove" /\ s[i + 1].k \in {"num", "iso"}

\* (\d+)\s*K_DELETE matches at token i
DeleteAt(s, i) == i + 1 <= Len(s) /\ EndsInDigits(s[i]) /\ s[i + 1].k = "delete"

\* The command run_chat_mode takes the input for, in the order of its tests.
ChatCommand(user_input) ==
    LET s == NoWs(user_input)
    IN  IF user_input = <<>> THEN "empty"
        ELSE IF user_input \in {<<T("w_exit")>>, <<T("w_quit")>>} \/ Has(s, "exit")
        THEN "exit"
        ELSE IF user_input = <<T("w_help")>> \/ Has(s, "help") THEN "help"
        ELSE IF user_input = <<T("w_list")>> \/ Has(s, "show") THEN "list"
        ELSE IF user_input = <<T("w_memory")>> THEN "memory"
        ELSE IF user_input = <<T("w_memory"), T("w_save")>> THEN "memory_save"
        ELSE IF user_input = <<T("w_memory"), T("w_load")>> THEN "memory_load"
        ELSE IF user_input \in {<<T("w_memory"), T("w_reset")>>,
                                <<T("w_reset"), T("w_memory")>>}
        THEN "memory_reset"
        ELSE IF FirstFrom(RemoveAt, s, 1) # 0 \/ FirstFrom(DeleteAt, s, 1) # 0
        THEN "remove"
        ELSE "ask"

\* int(rm_match.group(1))
RemoveId(user_input) ==
    LET s == NoWs(user_input)
        r == FirstFrom(RemoveAt, s, 1)
        d == FirstFrom(DeleteAt, s, 1)
    IN  IF r # 0 THEN LeadAll(s[r + 1])
        ELSE IF s[d].k = "iso" THEN IsoD(s[d]) ELSE s[d].v

InitFront ==
    /\ events = <<>>
    /\ nextId = 1
    /\ memory \in {EmptyMemory, [EmptyMemory EXCEPT !.daily_hours = Some(3)]}
    /\ saved = chat_memory_to_dict(memory)
    /\ now = [y |-> 2026, m |-> 11, d |-> 3]
    /\ text = <<>>
    /\ result = Outcome("init", "none", FALSE, FALSE)
    /\ pc = "ready"

\* main, command `ask`
CliAsk ==
    \E t \in FrontSentences :
        \E a \in {AskResult(t, [rows |-> events, next |-> nextId], now)} :
            /\ a.store.next <= MaxRows + 1
            /\ text' = t
            /\ events' = a.store.rows
            /\ nextId' = a.store.next
            /\ result' = Outcome("cli_ask", a.reply, a.asked, a.store.rows # events)
            /\ UNCHANGED <<memory, saved, now, pc>>

\* api_ask: the text stripped, 400 when nothing is left
api_ask ==
    \E t \in FrontSentences :
        \E a \in {AskResult(Strip(t), [rows |-> events, next |-> nextId], now)} :
            /\ text' = t
            /\ IF Strip(t) = <<>>
               THEN /\ result' = Outcome("api_ask", "text_required", FALSE, FALSE)
                    /\ UNCHANGED <<events, nextId>>
               ELSE /\ a.store.next <= MaxRows + 1
                    /\ events' = a.store.rows
                    /\ nextId' = a.store.next
                    /\ result' = Outcome("api_ask", a.reply, a.asked, a.store.rows # events)
            /\ UNCHANGED <<memory, saved, now, pc>>

\* One pass of the loop of run_chat_mode.  An error that escapes ends the
\* program; the next run starts from load_chat_memory().
ChatTurnOn(t) ==
        \E user_input \in {Strip(t)} :
        \E cmd \in {ChatCommand(user_input)} :
        \E r \in {TurnResult(user_input, memory, [rows |-> events, next |-> nextId], now)} :
            /\ text' = t
            /\ CASE cmd \in {"empty", "help", "list", "memory"} ->
                        /\ result' = Outcome("chat", cmd, FALSE, FALSE)
                        /\ UNCHANGED <<events, nextId, memory, saved>>
                 [] cmd \in {"exit", "memory_save"} ->
                        /\ saved' = chat_memory_to_dict(memory)
                        /\ result' = Outcome("chat", cmd, FALSE, FALSE)
                        /\ UNCHANGED <<events, nextId, memory>>
                 [] cmd = "memory_load" ->
                        /\ memory' = dict_to_chat_memory(saved)
                        /\ result' = Outcome("chat", cmd, FALSE, FALSE)
                        /\ UNCHANGED <<events, nextId, saved>>
                 [] cmd = "memory_reset" ->
                        /\ memory' = EmptyMemory
                        /\ saved' = chat_memory_to_dict(EmptyMemory)
                        /\ result' = Outcome("chat", cmd, FALSE, FALSE)
                        /\ UNCHANGED <<events, nextId>>
                 [] cmd = "remove" ->
                        /\ events' = DeleteRow(events, RemoveId(user_input))
                        /\ result' = Outcome("chat", cmd, FALSE,
                                             HasId(events, RemoveId(user_input)))
                        /\ UNCHANGED <<nextId, memory, saved>>
                 [] OTHER ->
                        /\ r.store.next <= MaxRows + 1
                        /\ events' = r.store.rows
                        /\ nextId' = r.store.next
                        /\ memory' = IF r.reply = "raised" THEN dict_to_chat_memory(saved)
                                     ELSE r.mem
                        /\ saved' = IF r.kept THEN chat_memory_to_dict(r.mem) ELSE saved
                        /\ result' = Outcome("chat", r.reply, r.asked, r.store.rows # events)
            /\ UNCHANGED <<now, pc>>

ChatTurn == \E t \in FrontSentences : ChatTurnOn(t)

\* AssistantGUI.on_send; Tk reports an error of the callback and goes on.
SendOn(t) ==
        \E user_input \in {Strip(t)} :
        \E r \in {TurnResult(user_input, memory, [rows |-> events, next |-> nextId], now)} :
            /\ text' = t
            /\ IF user_input = <<>>
               THEN /\ result' = Outcome("gui_send", "empty", FALSE, FALSE)
                    /\ UNCHANGED <<events, nextId, memory, saved>>
               ELSE /\ r.store.next <= MaxRows + 1
                    /\ events' = r.store.rows
                    /\ nextId' = r.store.next
                    /\ memory' = r.mem
                    /\ saved' = IF r.kept THEN chat_memory_to_dict(r.mem) ELSE saved
                    /\ result' = Outcome("gui_send", r.reply, r.asked, r.store.rows # events)
            /\ UNCHANGED <<now, pc>>

on_send == \E t \in FrontSentences : SendOn(t)

\* AssistantGUI.on_memory_reset, confirmed or declined in the dialog
on_memory_reset ==
    \E should_clear \in BOOLEAN :
        /\ IF should_clear
           THEN /\ memory' = EmptyMemory
                /\ saved' = chat_memory_to_dict(EmptyMemory)
                /\ events' = <<>>
                /\ result' = Outcome("gui_reset", "memory_reset", FALSE, events # <<>>)
           ELSE /\ result' = Outcome("gui_reset", "declined", FALSE, FALSE)
                /\ UNCHANGED <<events, memory, saved>>
        /\ UNCHANGED <<nextId, now, text, pc>>

NextFront ==
    \/ CliAsk
    \/ api_ask
    \/ ChatTurn
    \/ on_send
    \/ on_memory_reset

SpecFront == InitFront /\ [][NextFront]_vars

\* C8: after the explicit memory reset of either front end the memory is
\* the empty default and the event store is empty.
C8_ResetClearsEvents ==
    result.reply = "memory_reset" => (memory = EmptyMemory /\ events = <<>>)

\* C10: on every interactive path a sentence with a days-left marker and a
\* resolvable date gets the days-left reply, handle_ask is not called and
\* the event store stays as it was.
C10_DaysLeftFirst ==
    (/\ result.op \in {"cli_ask", "api_ask", "chat", "gui_send"}
     /\ parse_days_left_query(text, now).st = "ok")
        => (result.reply = "days_left" /\ ~result.asked /\ ~result.stored)

----------------------------------------------------------------------------
(* Specification SpecPlan: the planners called once, create_study_plan_events *)
(* on every number of days it is made for, the two planners that read a    *)
(* sentence on requests with and without their numerals.                   *)

PlanSentences ==
    {<<Tok("word", 2), T("study")>>,
     <<Num(10), T("day"), Tok("word", 2), T("study"), Num(2), T("hours")>>,
     <<Num(0), T("day"), Tok("word", 1), T("study"), Num(0), T("hours")>>,
     <<Num(180), T("day"), Tok("word", 1), T("study")>>,
     <<Num(181), T("day"), Tok("word", 1), T("study"), Num(12), T("hours")>>,
     <<Num(999), T("day"), T("study"), T("plan")>>,
     <<T("exam"), Num(7), T("day"), T("until"), Tok("word", 1), Num(40),
       Tok("word", 2), Num(30), Tok("word", 3), Num(30),
       T("perday"), Num(4), T("hours")>>,
     <<T("exam"), Num(7), T("day"), T("until"), Tok("word", 1), Num(1),
       Tok("word", 2), Num(2)>>,
     <<T("exam"), Num(7), T("day"), T("until"), Tok("word", 1), Num(1),
       Tok("word", 2), Num(3), T("perday"), Num(1), T("hours")>>,
     <<T("exam"), Num(9), T("day"), T("until"), Tok("word", 3), Num(1),
       Tok("word", 2), Num(1), Tok("word", 1), Num(1), T("perday"), Num(0), T("hours")>>,
     <<T("exam"), Num(6), T("day"), T("until"), Tok("word", 1), Num(3), T("hours"),
       Tok("word", 2), Num(5)>>,
     <<T("exam"), Num(4), T("day"), T("until"), T("subject"), Tok("word", 1)>>,
     <<Iso(2026, 11, 1), T("exam"), T("until"), T("subject"), Tok("word", 1)>>,
     <<Iso(2027, 1, 2), T("ctest"), T("until"), T("subject"), Tok("word", 1),
       Tok("word", 3)>>,
     <<T("exam"), T("until"), T("subject"), Tok("word", 1)>>,
     <<T("exam"), Num(32), T("day"), T("until"), T("subject"), Tok("word", 1)>>}

PlanDates ==
    {[y |-> 2026, m |-> 11, d |-> 4], [y |-> 2027, m |-> 12, d |-> 31],
     [y |-> 2028, m |-> 2, d |-> 28]}

PlanHourValues == {1, 2}

InitPlan ==
    /\ events = <<>>
    /\ nextId = 1
    /\ memory = EmptyMemory
    /\ saved = chat_memory_to_dict(EmptyMemory)
    /\ now \in PlanDates
    /\ text \in PlanSentences
    /\ result = [st |-> "none"]
    /\ pc = "start"

\* create_study_plan_events(goal, days, daily_hours, now), the goal that of
\* a study request
StudyPlanCall ==
    \E days \in 1..MaxPlanDays, daily_hours \in PlanHourValues :
        /\ Has(text, "study")
        /\ Returned("create_study_plan_events",
                    [st |-> "ok", days |-> days,
                     evs |-> create_study_plan_events(extract_study_goal(text), days,
                                                      daily_hours, now)])
        /\ UNCHANGED <<events, nextId>>

MakeStudyPlanCall ==
    /\ Returned("make_study_plan_from_text", make_study_plan_from_text(text, now))
    /\ UNCHANGED <<events, nextId>>

NextPlan == StudyPlanCall \/ MakeStudyPlanCall \/ ExamPlanCall

SpecPlan == InitPlan /\ [][NextPlan]_vars

\* C11: for every days in 1..180 and every `now`, create_study_plan_events
\* returns exactly `days` events, the i-th (from zero) at 20:00 on the
\* calendar day 1 + i days after that of `now`.
C11_OneSessionPerDay ==
    pc = "create_study_plan_events" =>
        /\ Len(result.evs) = result.days
        /\ \A i \in 0..(result.days - 1) :
               /\ ValidDate(result.evs[i + 1].day.y, result.evs[i + 1].day.m,
                            result.evs[i + 1].day.d)
               /\ Ordinal(result.evs[i + 1].day) = Ordinal(now) + 1 + i
               /\ result.evs[i + 1].hh = 20
               /\ result.evs[i + 1].mm = 0

\* A plan of 180 days from the last day of a year: it runs over a leap day.
C11_Witness ==
    /\ pc = "create_study_plan_events"
    /\ result.days = MaxPlanDays
    /\ now = [y |-> 2027, m |-> 12, d |-> 31]
    /\ result.evs[MaxPlanDays].day = [y |-> 2028, m |-> 6, d |-> 28]

\* The phase named in a title of create_study_plan_events.
PhaseOfTitle(title) == title[Len(title) - 5]

\* C12 as stated: in a study plan of 10 days the sessions 0..5 (from zero)
\* are Concepts, the sessions 6..8 Practice and the session 9 Review.
C12_PhasesOfTenDays ==
    (pc \in {"create_study_plan_events", "make_study_plan_from_text"}
     /\ Len(result.evs) = 10) =>
        \A i \in 0..9 :
            PhaseOfTitle(result.evs[i + 1].title) =
                IF i <= 5 THEN "Concepts" ELSE IF i <= 8 THEN "Practice" ELSE "Review"

\* C12 amended: in a study plan of 10 days the sessions 0..5 (from zero)
\* are Concepts, the sessions 6..7 Practice and the sessions 8..9 Review.
C12_PhasesByCutoffs ==
    (pc \in {"create_study_plan_events", "make_study_plan_from_text"}
     /\ Len(result.evs) = 10) =>
        \A i \in 0..9 :
            PhaseOfTitle(result.evs[i + 1].title) =
                IF i <= 5 THEN "Concepts" ELSE IF i <= 7 THEN "Practice" ELSE "Review"

\* The plan of 10 days asked for in a sentence.
C12_Witness ==
    /\ pc = "make_study_plan_from_text"
    /\ Len(result.evs) = 10
    /\ PhaseOfTitle(result.evs[6].title) = "Concepts"
    /\ PhaseOfTitle(result.evs[8].title) = "Practice"
    /\ PhaseOfTitle(result.evs[9].title) = "Review"

\* C13: create_exam_countdown_plan returns no events when the exam date
\* cannot be resolved or lies days_left <= 0 days ahead; otherwise it returns
\* days_left + 1 events: for offset 1..days_left, in this order, one at 20:00
\* on today + offset labelled D-(days_left - offset), then one on the exam
\* date at 09:00.
C13_CountdownShape ==
    pc = "create_exam_countdown_plan" =>
        /\ result.st = "ok"
        /\ IF \/ parse_exam_date(text, now).st # "ok"
              \/ DaysBetween(parse_exam_date(text, now).v, now) <= 0
           THEN result.evs = <<>>
           ELSE /\ Len(result.evs) = DaysBetween(parse_exam_date(text, now).v, now) + 1
                /\ \A offset \in 1..(Len(result.evs) - 1) :
                       /\ Ordinal(result.evs[offset].day) = Ordinal(now) + offset
                       /\ result.evs[offset].hh = 20
                       /\ result.evs[offset].mm = 0
                       /\ SubSeq(result.evs[offset].title, 1, 6) =
                              <<"Exam", " ", "D", "-",
                                ToString(Len(result.evs) - 1 - offset), ":">>
                /\ result.evs[Len(result.evs)].day = parse_exam_date(text, now).v
                /\ result.evs[Len(result.evs)].hh = 9
                /\ result.evs[Len(result.evs)].mm = 0

\* The sum of the weights, as a whole number.
RECURSIVE WeightSum(_, _)
WeightSum(loads, n) == IF n = 0 THEN 0 ELSE WeightSum(loads, n - 1) + loads[n].amount.p

\* Where the k-th subject stands in a title of the countdown.
AllocStart(k) == 7 + 9 * (k - 1) + 1

\* t tenths is a tenth nearest to h * w / total.
NearestTenth(t, h, w, total) ==
    /\ 20 * h * w - 2 * t * total <= total
    /\ 2 * t * total - 20 * h * w <= total

----------------------------------------------------------------------------
(* Specification SpecLoads: parse_subject_loads called once on a sentence  *)
(* of up to MaxMentions mentions, each a subject, an amount (whole or      *)
(* decimal) and K_HOURS or no unit.                                        *)

MaxMentions == 3

LoadNames2 == {Tok("word", 1), Tok("word", 2)}

LoadAmounts == {Num(2), Tok("dec", 1), Tok("dec", 2), Tok("dec", 3)}

Mentions ==
    {<<name, amount>> : name \in LoadNames2, amount \in LoadAmounts}
    \cup {<<name, amount, T("hours")>> : name \in LoadNames2, amount \in LoadAmounts}

InitLoads ==
    /\ events = <<>>
    /\ nextId = 1
    /\ memory = EmptyMemory
    /\ saved = chat_memory_to_dict(EmptyMemory)
    /\ now = [y |-> 2026, m |-> 11, d |-> 4]
    /\ text \in Sentences(Mentions, MaxMentions)
    /\ result = [st |-> "none"]
    /\ pc = "start"

SubjectLoadsCall ==
    /\ Returned("parse_subject_loads", [st |-> "ok", loads |-> parse_subject_loads(text)])
    /\ UNCHANGED <<events, nextId>>

NextLoads == SubjectLoadsCall

SpecLoads == InitLoads /\ [][NextLoads]_vars

\* The mentions a sentence of the specification is made of.
RECURSIVE MentionsOf(_)
MentionsOf(s) ==
    IF s = <<>> THEN <<>>
    ELSE IF Len(s) >= 3 /\ s[3].k = "hours"
         THEN <<SubSeq(s, 1, 3)>> \o MentionsOf(SubSeq(s, 4, Len(s)))
         ELSE <<SubSeq(s, 1, 2)>> \o MentionsOf(SubSeq(s, 3, Len(s)))

Orders(n) == {f \in [1..n -> 1..n] : \A i, j \in 1..n : f[i] = f[j] => i = j}

\* The sentence with its mentions in the order f.
Rearranged(s, f) == Concat([i \in 1..Len(MentionsOf(s)) |-> MentionsOf(s)[f[i]]])

\* The two lists give every subject the same amount.
SameAmounts(a, b) ==
    /\ Len(a) = Len(b)
    /\ \A i \in 1..Len(a) :
           \E j \in 1..Len(b) : b[j].name = a[i].name /\ b[j].amount = a[i].amount

\* Every mention of the subject in the sentence carries K_HOURS.
AllInHours(s, name) ==
    \A i \in 1..Len(MentionsOf(s)) :
        MentionsOf(s)[i][1] = name => Len(MentionsOf(s)[i]) = 3

\* C15: parse_subject_loads gives a subject mentioned several times the sum
\* of the mentioned amounts, the same in whatever order the mentions stand,
\* and the unit WEIGHT as soon as two of its mentions differ in unit.
C15_MergeOrderFree ==
    pc = "parse_subject_loads" =>
        /\ \A f \in Orders(Len(MentionsOf(text))) :
               SameAmounts(result.loads, parse_subject_loads(Rearranged(text, f)))
        /\ \A i \in 1..Len(result.loads) :
               result.loads[i].unit =
                   IF AllInHours(text, result.loads[i].name) THEN "hours" ELSE "weight"

----------------------------------------------------------------------------
(* Specification SpecTitle: normalize_title called once on a raw title of  *)
(* up to MaxAtoms atoms; `text` holds the raw title.                       *)

MaxAtoms == 4

TitleAtoms == {" ", ",", "eun", "i", "ga", "ya", "ye", "jeong", "meeting"}

InitTitle ==
    /\ events = <<>>
    /\ nextId = 1
    /\ memory = EmptyMemory
    /\ saved = chat_memory_to_dict(EmptyMemory)
    /\ now = [y |-> 2026, m |-> 11, d |-> 4]
    /\ text \in UNION {[1..n -> TitleAtoms] : n \in 0..MaxAtoms}
    /\ result = [st |-> "none"]
    /\ pc = "start"

NormalizeTitleCall ==
    /\ Returned("normalize_title", [st |-> "ok", title |-> normalize_title(text)])
    /\ UNCHANGED <<events, nextId>>

NextTitle == NormalizeTitleCall

SpecTitle == InitTitle /\ [][NextTitle]_vars

\* C16: normalize_title is idempotent: the title it returns is left as it
\* is by a second call, for every raw title.
C16_NormalizeIdempotent ==
    pc = "normalize_title" => normalize_title(result.title) = result.title

----------------------------------------------------------------------------
(* Specification SpecQuery: parse_generic_date or parse_days_left_query    *)
(* called once on a sentence with ISO-like dates (ahead, today, past, and  *)
(* not of the calendar), month-day and bare-day mentions.                  *)

MaxQuery == 3

QueryPhrases ==
    {<<Iso(2026, 11, 9)>>, <<Iso(2026, 11, 1)>>, <<Iso(2026, 11, 4)>>,
     <<Iso(2026, 2, 30)>>, <<Iso(2027, 13, 1)>>,
     <<Num(12), T("month"), Num(3), T("day")>>, <<Num(15), T("day")>>,
     <<Num(4), T("day")>>, <<T("howmany")>>, <<T("dday")>>, <<Tok("word", 4)>>}

QueryDates == {[y |-> 2026, m |-> 11, d |-> 4], [y |-> 2026, m |-> 12, d |-> 30]}

InitQuery ==
    /\ events = <<>>
    /\ nextId = 1
    /\ memory = EmptyMemory
    /\ saved = chat_memory_to_dict(EmptyMemory)
    /\ now \in QueryDates
    /\ text \in Sentences(QueryPhrases, MaxQuery)
    /\ result = [st |-> "none"]
    /\ pc = "start"

GenericDateCall ==
    /\ Returned("parse_generic_date", parse_generic_date(text, now))
    /\ UNCHANGED <<events, nextId>>

NextQuery == GenericDateCall \/ DaysLeftCall

SpecQuery == InitQuery /\ [][NextQuery]_vars

\* The sentence carries one of the markers of a days-left query.
LooksLikeQuery(txt) == Has(txt, "howmany") \/ Has(txt, "remain") \/ Has(txt, "dday")

\* The last n atoms of a sentence.
LastAtoms(a, n) == SubSeq(a, Len(a) - n + 1, Len(a))

\* C17: for a days-left query whose target date resolves to T, with n the
\* days from today to T, parse_days_left_query returns the sentence for a
\* day ahead with count n and label D-n when n > 0, the sentence for today
\* with label D-Day when n = 0, and the sentence for a day gone by with
\* count -n and label D+(-n) when n < 0.
C17_ThreePhrasings ==
    (/\ pc = "parse_days_left_query"
     /\ LooksLikeQuery(text)
     /\ parse_generic_date(text, now).st = "ok") =>
        /\ result.st = "ok"
        /\ SubSeq(result.msg, 1, Len(DateText(parse_generic_date(text, now).v))) =
               DateText(parse_generic_date(text, now).v)
        /\ IF Ordinal(parse_generic_date(text, now).v) > Ordinal(now)
           THEN /\ "namasseoyo" \in SeqRange(result.msg)
                /\ result.msg[Len(DateText(parse_generic_date(text, now).v)) + 3] =
                       ToString(Ordinal(parse_generic_date(text, now).v) - Ordinal(now))
                /\ LastAtoms(result.msg, 5) =
                       <<"(", "D", "-",
                         ToString(Ordinal(parse_generic_date(text, now).v) - Ordinal(now)),
                         ")">>
           ELSE IF Ordinal(parse_generic_date(text, now).v) = Ordinal(now)
           THEN /\ "oneulimnida" \in SeqRange(result.msg)
                /\ LastAtoms(result.msg, 5) = <<"(", "D", "-", "Day", ")">>
           ELSE /\ "jinasseoyo" \in SeqRange(result.msg)
                /\ result.msg[Len(DateText(parse_generic_date(text, now).v)) + 4] =
                       ToString(Ordinal(now) - Ordinal(parse_generic_date(text, now).v))
                /\ LastAtoms(result.msg, 5) =
                       <<"(", "D", "+",
                         ToString(Ordinal(now) - Ordinal(parse_generic_date(text, now).v)),
                         ")">>

\* A date 5 days ahead answered with D-5.
C17_Witness ==
    /\ pc = "parse_days_left_query"
    /\ result.st = "ok"
    /\ result.days = 5
    /\ LastAtoms(result.msg, 5) = <<"(", "D", "-", "5", ")">>

\* C18: on a sentence with an ISO-like date next to a month-day or a bare
\* day mention parse_generic_date returns the date written in the ISO-like
\* form: that form is tried first, then month-day, then the bare day.
C18_IsoFirst ==
    (/\ pc = "parse_generic_date"
     /\ FirstFrom(IsoAt, NoWs(text), 1) # 0
     /\ \/ FirstFrom(MonthDayAt, NoWs(text), 1) # 0
        \/ FirstFrom(DayAt, NoWs(text), 1) # 0) =>
        result = Ok([y |-> IsoY(NoWs(text)[FirstFrom(IsoAt, NoWs(text), 1)]),
                     m |-> IsoM(NoWs(text)[FirstFrom(IsoAt, NoWs(text), 1)]),
                     d |-> IsoD(NoWs(text)[FirstFrom(IsoAt, NoWs(text), 1)])])

\* The days a sentence asks for: the numeral of its first day mention.
AskedDays(txt) ==
    IF FirstFrom(DayAt, NoWs(txt), 1) = 0 THEN None
    ELSE Some(Trail3(NoWs(txt)[FirstFrom(DayAt, NoWs(txt), 1)]))

\* C19: make_study_plan_from_text rejects no plan parameter: days below 1
\* count as 1, above 180 as 180, absent as 7; hours not above 0 count as 1,
\* absent as 2; so every sentence gets between 1 and 180 events.
C19_PlanParametersClamped ==
    pc = "make_study_plan_from_text" =>
        /\ result.st = "ok"
        /\ Len(result.evs) >= 1
        /\ Len(result.evs) <= 180
        /\ Len(result.evs) =
               IF AskedDays(text) = None THEN 7
               ELSE IF AskedDays(text)[1] < 1 THEN 1
               ELSE IF AskedDays(text)[1] > 180 THEN 180
               ELSE AskedDays(text)[1]
        /\ \A i \in 1..Len(result.evs) :
               result.evs[i].title[Len(result.evs[i].title) - 2] =
                   IF PlanHours(NoWs(text)) = None THEN "2"
                   ELSE IF PlanHours(NoWs(text))[1] <= 0 THEN "1"
                   ELSE ToString(PlanHours(NoWs(text))[1])

\* A request for 0 days of 0 hours gets one session of 1 hour.
C19_Witness ==
    /\ pc = "make_study_plan_from_text"
    /\ AskedDays(text) = Some(0)
    /\ PlanHours(NoWs(text)) = Some(0)
    /\ Len(result.evs) = 1
    /\ LastAtoms(result.evs[1].title, 4) = <<"(", "1", "h", ")">>

----------------------------------------------------------------------------
(* Specification SpecLoad: load_chat_memory called once on a record that   *)
(* may be missing, unreadable or malformed.  `saved` holds the file: its   *)
(* kind and, for a JSON object, the value under each key.  A JSON value is *)
(* [t, v]: "null"; "str" with v = 0 for "", 1 for a blank string, 2 for a  *)
(* word, or the number yyyymmdd of an ISO date; "int", "float" (v the      *)
(* whole number it holds) and "bool" (v = 1 for true); "bigint", an        *)
(* integer above the largest double, under daily_hours; "list" with v = 0  *)
(* for [], 1 for [" "], 2 for ["math", " "], 3 for [7].                    *)

J(t, v) == [t |-> t, v |-> v]

FileKinds == {"missing", "unreadable", "badbytes", "badjson", "notdict", "dict"}

ExamDateValues ==
    {J("null", 0), J("str", 20261120), J("str", 20261340), J("str", 0), J("int", 20261120)}

SubjectsValues ==
    {J("null", 0), J("list", 0), J("list", 1), J("list", 2), J("list", 3), J("str", 2)}

DailyHoursValues ==
    {J("null", 0), J("int", 3), J("float", 2), J("bool", 1), J("str", 2), J("bigint", 0)}

StudyGoalValues == {J("null", 0), J("str", 2), J("str", 1), J("int", 3)}

StudyDaysValues == {J("null", 0), J("int", 7), J("float", 7), J("bool", 1), J("str", 2)}

JsonObjects ==
    [exam_date : ExamDateValues, subjects : SubjectsValues,
     daily_hours : DailyHoursValues, study_goal : StudyGoalValues,
     study_days : StudyDaysValues]

NoObject ==
    [exam_date |-> J("null", 0), subjects |-> J("null", 0), daily_hours |-> J("null", 0),
     study_goal |-> J("null", 0), study_days |-> J("null", 0)]

File(kind, data) == [kind |-> kind, data |-> data]

\* [str(x) for x in subjects_raw if str(x).strip()]
SubjectsOfList(v) ==
    CASE v = 2 -> <<Tok("word", 1)>>
      [] v = 3 -> <<Num(7)>>
      [] OTHER -> <<>>

\* dict_to_chat_memory on the object json.loads returned; float() of an
\* integer above the largest double raises OverflowError.
ReadFields(data) ==
    IF data.daily_hours.t = "bigint" THEN [st |-> "err", mem |-> EmptyMemory]
    ELSE [st |-> "ok",
          mem |->
            [exam_date |->
                 IF /\ data.exam_date.t = "str"
                    /\ ValidDate(data.exam_date.v \div 10000,
                                 (data.exam_date.v \div 100) % 100,
                                 data.exam_date.v % 100)
                 THEN Some([y |-> data.exam_date.v \div 10000,
                            m |-> (data.exam_date.v \div 100) % 100,
                            d |-> data.exam_date.v % 100])
                 ELSE None,
             subjects |->
                 IF data.subjects.t = "list" THEN SubjectsOfList(data.subjects.v)
                 ELSE <<>>,
             daily_hours |->
                 IF data.daily_hours.t \in {"int", "float", "bool"}
                 THEN Some(data.daily_hours.v) ELSE None,
             study_goal |->
                 IF data.study_goal.t = "str" /\ data.study_goal.v = 2
                 THEN Some(<<Tok("word", 1)>>) ELSE None,
             study_days |->
                 IF data.study_days.t \in {"int", "bool"}
                 THEN Some(data.study_days.v) ELSE None]]

\* load_chat_memory: only OSError and json.JSONDecodeError are caught; bytes
\* that are not UTF-8 make read_text raise UnicodeDecodeError.
load_chat_memory(file) ==
    IF file.kind \in {"missing", "unreadable", "badjson", "notdict"}
    THEN [st |-> "ok", mem |-> EmptyMemory]
    ELSE IF file.kind = "badbytes" THEN [st |-> "err", mem |-> EmptyMemory]
    ELSE ReadFields(file.data)

InitLoad ==
    /\ events = <<>>
    /\ nextId = 1
    /\ memory = EmptyMemory
    /\ saved \in {File(kind, NoObject) : kind \in FileKinds \ {"dict"}}
                 \cup {File("dict", data) : data \in JsonObjects}
    /\ now = [y |-> 2026, m |-> 11, d |-> 4]
    /\ text = <<>>
    /\ result = [st |-> "none"]
    /\ pc = "start"

\* memory = load_chat_memory(); the caller keeps its memory when the call raises
LoadMemoryCall ==
    \E r \in {load_chat_memory(saved)} :
        /\ pc = "start"
        /\ pc' = "load_chat_memory"
        /\ result' = [st |-> r.st]
        /\ memory' = r.mem
        /\ UNCHANGED <<events, nextId, saved, now, text>>

NextLoad == LoadMemoryCall

SpecLoad == InitLoad /\ [][NextLoad]_vars

\* The value is not of the kind the field holds.
Malformed(field, value) ==
    CASE field = "exam_date" ->
             ~(value.t = "str"
               /\ ValidDate(value.v \div 10000, (value.v \div 100) % 100, value.v % 100))
      [] field = "subjects" -> value.t # "list"
      [] field = "daily_hours" -> value.t \notin {"int", "float", "bigint"}
      [] field = "study_goal" -> value.t # "str"
      [] field = "study_days" -> value.t # "int"

FieldAbsent(mem, field) == mem[field] = IF field = "subjects" THEN <<>> ELSE None

\* C20: load_chat_memory raises nothing; it returns the empty memory when
\* the record is missing, unreadable, not valid text, not valid JSON or not
\* a JSON object, and leaves absent every field whose value is malformed.
C20_LoadNeverFails ==
    pc = "load_chat_memory" =>
        /\ result.st = "ok"
        /\ saved.kind # "dict" => memory = EmptyMemory
        /\ saved.kind = "dict" =>
               \A field \in MemoryFields :
                   Malformed(field, saved.data[field]) => FieldAbsent(memory, field)

----------------------------------------------------------------------------
(* Specification SpecTimes: the two extractors of timed events called once *)
(* on a sentence of day mentions, a month-day mention, and hours with and  *)
(* without an am/pm marker and a minute.                                   *)

MaxTimes == 4

TimePhrases ==
    {<<Num(15), T("day")>>, <<Num(20), T("day")>>,
     <<Num(12), T("month"), Num(3), T("day")>>,
     <<T("am"), Num(12), T("hour")>>, <<T("pm"), Num(3), T("hour")>>,
     <<T("pm"), Num(12), T("hour")>>,
     <<Num(9), T("hour")>>, <<Num(1), T("hour"), Num(30), T("min")>>,
     <<Num(11), T("hour")>>}

InitTimes ==
    /\ events = <<>>
    /\ nextId = 1
    /\ memory = EmptyMemory
    /\ saved = chat_memory_to_dict(EmptyMemory)
    /\ now = [y |-> 2026, m |-> 11, d |-> 4]
    /\ text \in Sentences(TimePhrases, MaxTimes)
    /\ result = [st |-> "none"]
    /\ pc = "start"

NextTimes == ParseEventsCall \/ ExplicitDateCall

SpecTimes == InitTimes /\ [][NextTimes]_vars

\* The hour the t-th hour token of a segment resolves to, in the words of
\* the claim: ms are the hour tokens of the segment.
RECURSIVE ResolvedHour(_, _)
ResolvedHour(ms, t) ==
    IF ms[t].ampm = "am" /\ ms[t].hour = 12 THEN 0
    ELSE IF ms[t].ampm = "pm" /\ ms[t].hour < 12 THEN ms[t].hour + 12
    ELSE IF /\ ms[t].ampm = "no"
            /\ t > 1
            /\ ms[t].hour <= ResolvedHour(ms, t - 1)
            /\ ms[t].hour < 12
         THEN ms[t].hour + 12
    ELSE ms[t].hour

\* The segment of the k-th day mention of e, idx the places of the mentions.
SegmentOf(e, idx, k) ==
    SubSeq(e, idx[k] + 2, IF k < Len(idx) THEN idx[k + 1] - 1 ELSE Len(e))

\* The hours of the events of the segments from the k-th on, 9 for a
\* segment without an hour token.
RECURSIVE SegmentHours(_, _, _)
SegmentHours(e, idx, k) ==
    IF k > Len(idx) THEN <<>>
    ELSE (IF TimeMatches(SegmentOf(e, idx, k)) = <<>> THEN <<9>>
          ELSE [t \in 1..Len(TimeMatches(SegmentOf(e, idx, k))) |->
                    ResolvedHour(TimeMatches(SegmentOf(e, idx, k)), t)])
         \o SegmentHours(e, idx, k + 1)

HoursOf(evs) == [i \in 1..Len(evs) |-> evs[i].hh]

\* C21: in every day segment of parse_events_korean an hour with the AM
\* marker and raw hour 12 is 0, one with the PM marker and raw hour below 12
\* is raw + 12, an unmarked one not above the hour resolved before it in the
\* same segment and below 12 is raw + 12, every other is the raw hour; the
\* first unmarked hour of a segment is never shifted.
C21_HourResolution ==
    pc = "parse_events_korean" =>
        /\ result.st = "ok"
        /\ HoursOf(result.evs) =
               SegmentHours(Expand(NoWs(text)),
                            IndicesFrom(DayAt, Expand(NoWs(text)), 1), 1)

\* "15 day 11 hour 9 hour pm 3 hour": 11:00, the unmarked 9 carried to 21:00,
\* and 15:00 by the marker.
C21_Witness ==
    /\ pc = "parse_events_korean"
    /\ text = <<Num(15), T("day"), Num(11), T("hour"), Num(9), T("hour"),
                T("pm"), Num(3), T("hour")>>
    /\ HoursOf(result.evs) = <<11, 21, 15>>

ClockOf(evs) == [i \in 1..Len(evs) |-> <<evs[i].hh, evs[i].mm>>]

\* A sentence that opens with the month-day mention and names no other day.
OpensWithMonthDay(txt) ==
    /\ Len(txt) > 4
    /\ SubSeq(txt, 1, 4) = <<Num(12), T("month"), Num(3), T("day")>>
    /\ \A i \in 5..Len(txt) : txt[i].k # "day"

\* C22: create_events_with_explicit_month_date resolves the hour tokens that
\* follow an explicit month-day date to the hours and minutes that
\* parse_events_korean resolves the same hour tokens to after a day mention,
\* the carry of unmarked hours included.
C22_SameTimeLoop ==
    (pc = "create_events_with_explicit_month_date" /\ OpensWithMonthDay(text))
        => /\ result.st = "ok"
           /\ ClockOf(result.evs) =
                  ClockOf(parse_events_korean(
                              <<Num(3), T("day")>> \o SubSeq(text, 5, Len(text)),
                              now).evs)

\* "12 month 3 day 11 hour 9 hour": 11:00 and 09:00 on the explicit-date
\* path, 11:00 and 21:00 after a day mention.
C22_NoCarry ==
    /\ pc = "create_events_with_explicit_month_date"
    /\ text = <<Num(12), T("month"), Num(3), T("day"),
                Num(11), T("hour"), Num(9), T("hour")>>
    /\ ClockOf(result.evs) = <<<<11, 0>>, <<9, 0>>>>
    /\ ClockOf(parse_events_korean(SubSeq(text, 3, Len(text)), now).evs)
           = <<<<11, 0>>, <<21, 0>>>>

\* What the claim says of the t-th event of a segment: the day the segment
\* resolves to and, when the segment has hour tokens ms, the raw hour
\* (up to the 12 of the resolution) and the minute of the t-th of them.
Slot(ms, t, day) ==
    IF ms = <<>> THEN [day |-> day, h12 |-> 9, mm |-> 0]
    ELSE [day |-> day, h12 |-> ms[t].hour % 12, mm |-> ms[t].minute]

SlotsOfSegment(ms, day) ==
    [t \in 1..(IF ms = <<>> THEN 1 ELSE Len(ms)) |-> Slot(ms, t, day)]

\* The slots of the segments from the k-th on, in text order.
RECURSIVE SegmentSlots(_, _, _, _)
SegmentSlots(e, idx, k, base) ==
    IF k > Len(idx) THEN <<>>
    ELSE SlotsOfSegment(TimeMatches(SegmentOf(e, idx, k)),
                        infer_date(base, Trail2(e[idx[k]])).v)
         \o SegmentSlots(e, idx, k + 1, base)

SlotsOf(evs) ==
    [i \in 1..Len(evs) |->
        [day |-> evs[i].day, h12 |-> evs[i].hh % 12, mm |-> evs[i].mm]]

\* C23: parse_events_korean returns, segment by segment in text order, one
\* event for every hour token of the segment in token order, or one event
\* at 09:00 for a segment without an hour token, every event on the day its
\* own segment resolves to; a text without a day marker gives no event.
C23_EventsBySegment ==
    pc = "parse_events_korean" =>
        /\ result.st = "ok"
        /\ SlotsOf(result.evs) =
               SegmentSlots(Expand(NoWs(text)),
                            IndicesFrom(DayAt, Expand(NoWs(text)), 1), 1, now)
        /\ (\A i \in 1..Len(text) : text[i].k # "day") => result.evs = <<>>

\* "20 day 15 day 9 hour 1 hour 30 min": 09:00 on the 20th for the empty
\* segment, then 09:00 and 13:30 on the 15th.
C23_Witness ==
    /\ pc = "parse_events_korean"
    /\ text = <<Num(20), T("day"), Num(15), T("day"), Num(9), T("hour"),
                Num(1), T("hour"), Num(30), T("min")>>
    /\ Len(result.evs) = 3
    /\ result.evs[1].day = [y |-> 2026, m |-> 11, d |-> 20]
    /\ result.evs[2].day = [y |-> 2026, m |-> 11, d |-> 15]
    /\ <<result.evs[3].hh, result.evs[3].mm>> = <<13, 30>>

\* floor(days * num / den) as the largest whole number not above the product.
FloorOf(days, num, den) ==
    CHOOSE c \in 0..days : den * c <= num * days /\ den * (c + 1) > num * days

PhaseRank(phase) ==
    IF phase = "Concepts" THEN 1 ELSE IF phase = "Practice" THEN 2 ELSE 3

\* The sessions evs of a plan of days days are in the blocks the cutoffs
\* concepts_end and practice_end give.
InBlocks(evs, days, concepts_end, practice_end) ==
    /\ Len(evs) = days
    /\ \A i \in 0..(days - 1) :
           PhaseOfTitle(evs[i + 1].title) =
               IF i < concepts_end THEN "Concepts"
               ELSE IF i < practice_end THEN "Practice"
               ELSE "Review"
    /\ \A i \in 1..(days - 1) :
           PhaseRank(PhaseOfTitle(evs[i].title))
               <= PhaseRank(PhaseOfTitle(evs[i + 1].title))
    /\ PhaseOfTitle(evs[days].title) = "Review"

\* C24: in a study plan of days in 1..180 the session i (from zero) is
\* Concepts iff i < floor(days * 0.6), Practice iff floor(days * 0.6) <= i <
\* floor(days * 0.85), Review otherwise; the phases never go back and the
\* last session is Review.
C24_PhaseBlocks ==
    (pc = "create_study_plan_events" /\ result.days \in 1..MaxPlanDays) =>
        InBlocks(result.evs, result.days,
                 FloorOf(result.days, 6, 10), FloorOf(result.days, 85, 100))

\* A plan of 7 days: four sessions of Concepts, one of Practice, two of Review.
C24_Witness ==
    /\ pc = "create_study_plan_events"
    /\ result.days = 7
    /\ [i \in 1..7 |-> PhaseRank(PhaseOfTitle(result.evs[i].title))]
           = <<1, 1, 1, 1, 2, 3, 3>>

----------------------------------------------------------------------------
(* Specification SpecApply: apply_chat_memory called once on a sentence    *)
(* with a memory that load_chat_memory read from a file.                   *)

MaxApply == 2

ApplyPhrases ==
    {<<T("exam"), T("until")>>, <<T("study")>>, <<T("plan")>>, <<Tok("word", 2)>>,
     <<T("perday"), Num(2), T("hours")>>, <<Num(14), T("day")>>}

ApplyObjects ==
    [exam_date : {J("null", 0), J("str", 20261120)},
     subjects : {J("null", 0), J("list", 2)},
     daily_hours : {J("null", 0), J("int", 3), J("int", 0), J("float", 2)},
     study_goal : {J("null", 0), J("str", 2)},
     study_days : {J("null", 0), J("int", 7)}]

InitApply ==
    /\ events = <<>>
    /\ nextId = 1
    /\ saved \in {File("dict", data) : data \in ApplyObjects}
    /\ memory = load_chat_memory(saved).mem
    /\ now = [y |-> 2026, m |-> 11, d |-> 4]
    /\ text \in Sentences(ApplyPhrases, MaxApply)
    /\ result = [st |-> "none"]
    /\ pc = "start"

NextApply == ApplyCall

SpecApply == InitApply /\ [][NextApply]_vars

\* How many times the clause c stands in the sentence s.
Occurrences(c, s) ==
    Cardinality({i \in 1..(Len(s) - Len(c) + 1) : SubSeq(s, i, i + Len(c) - 1) = c})

\* The sentence s with clauses of fields the memory holds, none of them
\* twice: the goal in front; exam date, subjects, hours behind by the exam
\* branch; days, hours behind by the study branch.
OnceAugmentations(s, mem) ==
    {Clause(c[1], IF mem.study_goal # None THEN mem.study_goal[1] ELSE <<>>) \o s
       \o Clause(c[2], IF mem.exam_date # None THEN ExamClause(mem) ELSE <<>>)
       \o Clause(c[3], IF mem.subjects # <<>> THEN SubjectsClause(mem) ELSE <<>>)
       \o Clause(c[4], IF mem.daily_hours # None THEN HoursClause(mem) ELSE <<>>)
       \o Clause(c[5], IF mem.study_days # None THEN DaysClause(mem) ELSE <<>>)
       \o Clause(c[6], IF mem.daily_hours # None THEN HoursClause(mem) ELSE <<>>) :
         c \in {b \in [1..6 -> BOOLEAN] : ~(b[4] /\ b[6])}}

\* C25: one call of apply_chat_memory adds each clause it derives from the
\* memory (exam date, subjects, daily hours, study goal, study days) at most
\* once, for every sentence and every memory load_chat_memory can produce;
\* the daily-hours clause of the exam branch is not added again by the study
\* branch.
C25_ClausesOnce ==
    pc = "apply_chat_memory" =>
        result.out \in OnceAugmentations(Strip(text), memory)

\* The memory of a file with "daily_hours": 0 on an exam-distribution
\* sentence that is a study request: the clause of 0 hours stands twice.
C25_HoursTwice ==
    /\ pc = "apply_chat_memory"
    /\ memory.daily_hours = Some(0)
    /\ text = <<T("exam"), T("until"), T("study")>>
    /\ Occurrences(HoursClause(memory), result.out) = 2

----------------------------------------------------------------------------
(* Specification SpecTurn: turns of the chat loop and of the GUI send      *)
(* handler on sentences that give a days-left reply, events, or neither.   *)

TurnSentences ==
    {<<T("exam"), Num(21), T("day"), T("howmany")>>,
     <<Num(20), T("day"), Tok("word", 4)>>,
     <<T("perday"), Num(2), T("hours"), Tok("word", 4)>>,
     <<T("exam"), T("until"), T("perday"), Num(2), T("hours")>>,
     <<T("exam"), Num(0), T("day"), T("study")>>,
     <<Num(1), T("day"), Tok("word", 2), T("study")>>,
     <<Tok("word", 4)>>}

InitTurn ==
    /\ events = <<>>
    /\ nextId = 1
    /\ memory \in {EmptyMemory, [EmptyMemory EXCEPT !.daily_hours = Some(3)],
                   [EmptyMemory EXCEPT !.exam_date = Some([y |-> 2026, m |-> 11, d |-> 20])]}
    /\ saved = chat_memory_to_dict(memory)
    /\ now = [y |-> 2026, m |-> 11, d |-> 3]
    /\ text = <<>>
    /\ result = Outcome("init", "none", FALSE, FALSE)
    /\ pc = "ready"

ChatSentence == \E t \in TurnSentences : ChatTurnOn(t)

SendSentence == \E t \in TurnSentences : SendOn(t)

NextTurn == ChatSentence \/ SendSentence

SpecTurn == InitTurn /\ [][NextTurn]_vars

\* The sentence gives a days-left reply or a non-empty event list.
Produces(enriched, base) ==
    \/ parse_days_left_query(enriched, base).st = "ok"
    \/ /\ parse_days_left_query(enriched, base).st = "none"
       /\ handle_ask(enriched, base).st = "ok"
       /\ handle_ask(enriched, base).evs # <<>>

\* handle_ask was called on the sentence and returned no events.
NoEvents(enriched, base) ==
    /\ parse_days_left_query(enriched, base).st = "none"
    /\ handle_ask(enriched, base).st = "ok"
    /\ handle_ask(enriched, base).evs = <<>>

\* The memory after the step is the one update_chat_memory makes of the
\* memory before it, and chat_memory.json holds it.
UpdatedAndPersisted(enriched) ==
    /\ update_chat_memory(memory, enriched, now).st = "ok"
    /\ memory' = update_chat_memory(memory, enriched, now).mem
    /\ saved' = chat_memory_to_dict(memory')

TurnKeepsRule(enriched) ==
    /\ Produces(enriched, now) => UpdatedAndPersisted(enriched)
    /\ NoEvents(enriched, now) => UNCHANGED <<memory, saved, events>>

\* C26: in the chat loop and in the GUI send handler the memory is updated
\* and persisted for every sentence that gives a days-left reply or a
\* non-empty event list, and a sentence for which handle_ask returns no
\* events leaves the memory, chat_memory.json and the event store as they
\* were.
C26_MemoryFollowsOutcome ==
    [][result'.op \in {"chat", "gui_send"} =>
           TurnKeepsRule(apply_chat_memory(Strip(text'), memory))]_vars

\* A turn on "exam 0 day study": a session of the study plan is stored and
\* the memory is left as it was, update_chat_memory having raised.
C26_StoredNotRemembered ==
    /\ result.op \in {"chat", "gui_send"}
    /\ text = <<T("exam"), Num(0), T("day"), T("study")>>
    /\ result.reply = "raised"
    /\ result.stored
    /\ memory.study_days = None

----------------------------------------------------------------------------
(* Specification SpecRecall: a remembered exam date is merged into an      *)
(* exam-distribution sentence by apply_chat_memory and the merged sentence *)
(* is given to update_chat_memory, as a turn of the chat loop does.        *)

RecallSentences ==
    {<<T("exam"), T("until")>>,
     <<T("exam"), T("until"), Tok("word", 2), Num(40)>>,
     <<T("exam"), T("subject"), Tok("word", 2)>>,
     <<T("exam"), T("until"), T("perday"), Num(2), T("hours")>>,
     <<T("exam"), T("until"), T("study")>>,
     <<Tok("word", 4)>>}

RecallExamDates ==
    {[y |-> 2026, m |-> 11, d |-> 20], [y |-> 2026, m |-> 11, d |-> 3],
     [y |-> 2027, m |-> 12, d |-> 1], [y |-> 2028, m |-> 2, d |-> 29]}

RecallDates ==
    {[y |-> 2026, m |-> 11, d |-> 3], [y |-> 2026, m |-> 11, d |-> 21],
     [y |-> 2027, m |-> 11, d |-> 20]}

InitRecall ==
    /\ events = <<>>
    /\ nextId = 1
    /\ memory \in {[exam_date |-> Some(e), subjects |-> s, daily_hours |-> h,
                    study_goal |-> None, study_days |-> None] :
                       e \in RecallExamDates,
                       s \in {<<>>, <<Tok("word", 1)>>},
                       h \in {None, Some(3)}}
    /\ saved = chat_memory_to_dict(memory)
    /\ now \in RecallDates
    /\ text \in RecallSentences
    /\ result = [st |-> "none"]
    /\ pc = "start"

\* update_chat_memory(memory, enriched) on the sentence apply_chat_memory
\* returned; a raise leaves the object as it was.
UpdateMerged ==
    /\ pc = "apply_chat_memory"
    /\ \E r \in {update_chat_memory(memory, result.out, now)} :
        /\ pc' = "update_chat_memory"
        /\ memory' = r.mem
        /\ result' = [st |-> r.st, out |-> result.out, before |-> memory]
        /\ UNCHANGED <<events, nextId, saved, now, text>>

NextRecall == ApplyCall \/ UpdateMerged

SpecRecall == InitRecall /\ [][NextRecall]_vars

\* The exam-distribution sentence had no exam date and got the remembered one.
CompletedFromMemory ==
    /\ is_exam_distribution_request(Strip(text))
    /\ ~has_explicit_exam_date(Strip(text))
    /\ Occurrences(ExamClause(result.before), result.out) = 1

\* C27: when an exam-distribution sentence without an exam date is completed
\* from the remembered exam date and update_chat_memory is applied to the
\* completed sentence, memory.exam_date is the same calendar date afterwards
\* as before, for every remembered exam date and every current date.
C27_ExamDateRoundTrip ==
    (pc = "update_chat_memory" /\ CompletedFromMemory) =>
        /\ result.st = "ok"
        /\ memory.exam_date = result.before.exam_date

\* The exam of 2026-11-20 recalled on 2026-11-21 is remembered as 2027-11-20.
C27_YearShifted ==
    /\ pc = "update_chat_memory"
    /\ CompletedFromMemory
    /\ now = [y |-> 2026, m |-> 11, d |-> 21]
    /\ result.before.exam_date = Some([y |-> 2026, m |-> 11, d |-> 20])
    /\ memory.exam_date = Some([y |-> 2027, m |-> 11, d |-> 20])

----------------------------------------------------------------------------
(* The notifier loops: run_daemon, NotifierState._run and                  *)
(* NotifierWorker.run are one loop, a step of it an action.  In the        *)
(* specifications of this section `now` carries the second of the day in   *)
(* its field s, `pc` is the place of the polling thread ("none" before the *)
(* first start, "test" at the loop test, "select" before the SELECT,       *)
(* "rows" in the loop over the fetched rows, "wait" in the sleep, "exit"   *)
(* when run has returned and the thread is still alive, "done" after it),  *)
(* and `result` holds the notifier's objects: the stop event, the last     *)
(* completed request and what it reported, the locals of the loop (the     *)
(* clock it read, the rows it fetched, its place k among them, the second  *)
(* its sleep ends), whether its connection holds the write lock, the       *)
(* alerts sent, and lag, the seconds the clock has gone on since the poll  *)
(* began.                                                                  *)

\* poll_seconds
PollSeconds == 15

\* The seconds a poll may take from the loop test to the sleep.
MaxLag == 2

\* The seconds the clock counts after the time of the event; more than
\* PollSeconds + MaxLag, so that no later window reaches the event.
MaxSeconds == 36

NotifierDay == [y |-> 2026, m |-> 11, d |-> 4]

\* 10:00:00 of the day is the time of the stored events; the clock starts
\* up to five seconds before.
EventSecond == 10 * 3600

\* event_time as seconds from the start of NotifierDay
StampOf(r) == DaysBetween(r.day, NotifierDay) * 86400 + r.hh * 3600 + r.mm * 60

Clock(s) == [y |-> NotifierDay.y, m |-> NotifierDay.m, d |-> NotifierDay.d, s |-> s]

Alive == {"test", "select", "rows", "wait", "exit"}

Runnable == {"test", "select", "rows", "exit"}

Notifier(stop, op, ret, running) ==
    [stop |-> stop, op |-> op, ret |-> ret, running |-> running,
     read |-> 0, rows |-> <<>>, k |-> 1, wake |-> 0, lag |-> 0,
     locked |-> FALSE, alerts |-> {}]

\* SELECT id, title, event_time FROM events WHERE notified = 0
IsPending(r) == r.notified = 0

Fetched(rows) ==
    [i \in 1..Len(SelectSeq(rows, IsPending)) |->
        [id |-> SelectSeq(rows, IsPending)[i].id,
         at |-> StampOf(SelectSeq(rows, IsPending)[i])]]

\* window_start <= event_dt <= now
InWindow(at, read) == read - PollSeconds <= at /\ at <= read

\* NotifierState.start, start_notifier: nothing when the thread is alive
NotifierStart ==
    /\ result' = IF pc \in Alive
                 THEN [result EXCEPT !.op = "start", !.ret = FALSE, !.running = TRUE]
                 ELSE [result EXCEPT !.op = "start", !.ret = TRUE, !.running = TRUE,
                                     !.stop = FALSE, !.lag = 0]
    /\ pc' = IF pc \in Alive THEN pc ELSE "test"
    /\ UNCHANGED <<events, nextId, memory, saved, now, text>>

\* NotifierState.stop, stop_notifier: nothing when no thread is alive
NotifierStop ==
    /\ result' = IF pc \in Alive
                 THEN [result EXCEPT !.op = "stop", !.ret = TRUE, !.running = FALSE,
                                     !.stop = TRUE]
                 ELSE [result EXCEPT !.op = "stop", !.ret = FALSE, !.running = FALSE]
    /\ UNCHANGED <<events, nextId, memory, saved, now, text, pc>>

\* while not stop.is_set(): now = datetime.now()
LoopTest ==
    /\ pc = "test"
    /\ pc' = IF result.stop THEN "exit" ELSE "select"
    /\ result' = IF result.stop THEN result ELSE [result EXCEPT !.read = now.s]
    /\ UNCHANGED <<events, nextId, memory, saved, now, text>>

\* rows = conn.execute(SELECT ...).fetchall()
SelectPending ==
    /\ pc = "select"
    /\ pc' = "rows"
    /\ result' = [result EXCEPT !.rows = Fetched(events), !.k = 1]
    /\ UNCHANGED <<events, nextId, memory, saved, now, text>>

\* One pass of the loop over the fetched rows: the alert, and the UPDATE,
\* which takes the write lock of the database.
PollRow ==
    /\ pc = "rows"
    /\ result.k <= Len(result.rows)
    /\ IF InWindow(result.rows[result.k].at, result.read)
       THEN /\ events' = MarkNotified(events, {result.rows[result.k].id})
            /\ result' = [result EXCEPT
                             !.k = @ + 1, !.locked = TRUE,
                             !.alerts = @ \cup {<<result.rows[result.k].id,
                                                  result.rows[result.k].at>>}]
       ELSE /\ events' = events
            /\ result' = [result EXCEPT !.k = @ + 1]
    /\ UNCHANGED <<nextId, memory, saved, now, text, pc>>

\* conn.commit(), conn.close(), and the sleep begun
PollCommit ==
    /\ pc = "rows"
    /\ result.k > Len(result.rows)
    /\ pc' = "wait"
    /\ result' = [result EXCEPT !.locked = FALSE, !.wake = now.s + PollSeconds,
                                !.lag = 0]
    /\ UNCHANGED <<events, nextId, memory, saved, now, text>>

\* stop.wait(poll_seconds) returns: the time is over or the event is set.
\* The last second of the clock stands for every later time, so a sleep
\* that reaches it ends there and the loop goes on polling.
WaitDone ==
    /\ pc = "wait"
    /\ now.s >= result.wake \/ result.stop \/ now.s = EventSecond + MaxSeconds
    /\ pc' = "test"
    /\ UNCHANGED <<events, nextId, memory, saved, now, text, result>>

\* run has returned; the thread ends
ThreadEnd ==
    /\ pc = "exit"
    /\ pc' = "done"
    /\ UNCHANGED <<events, nextId, memory, saved, now, text, result>>

\* A second passes: at most MaxLag of them while a poll is under way, and
\* none past the end of the sleep while the thread sleeps.
Tick ==
    /\ now.s < EventSecond + MaxSeconds
    /\ pc \in Runnable => result.lag < MaxLag
    /\ pc = "wait" => now.s < result.wake
    /\ now' = [now EXCEPT !.s = @ + 1]
    /\ result' = IF pc \in Runnable THEN [result EXCEPT !.lag = @ + 1] ELSE result
    /\ UNCHANGED <<events, nextId, memory, saved, text, pc>>

PollStep == LoopTest \/ SelectPending \/ PollRow \/ PollCommit \/ WaitDone

----------------------------------------------------------------------------
(* Specification SpecNotifier: start and stop requests, the polling thread *)
(* and the clock, on a store of one pending event.                         *)

InitNotifier ==
    /\ events = <<Row(1, Event(NotifierDay, 10, 0, <<"A">>), 0)>>
    /\ nextId = 2
    /\ memory = EmptyMemory
    /\ saved = chat_memory_to_dict(EmptyMemory)
    /\ now \in {Clock(s) : s \in (EventSecond - 5)..EventSecond}
    /\ text = <<>>
    /\ result = Notifier(FALSE, "init", FALSE, FALSE)
    /\ pc = "none"

NextNotifier ==
    \/ NotifierStart
    \/ NotifierStop
    \/ LoopTest
    \/ SelectPending
    \/ PollRow
    \/ PollCommit
    \/ WaitDone
    \/ ThreadEnd
    \/ Tick

SpecNotifier == InitNotifier /\ [][NextNotifier]_vars

\* C28: whenever the last completed request is a start, a polling thread is
\* alive and goes on polling (it has not returned from its loop and the
\* stop event is clear): a start after a stop never leaves the notifier
\* stopped while it is reported as running.
C28_StartedMeansPolling ==
    result.op = "start" =>
        /\ result.running
        /\ pc \in {"test", "select", "rows", "wait"}
        /\ ~result.stop

\* A start answered while the stopped thread was still alive, and the
\* thread gone since: reported as running, no thread polls.
C28_ReportedRunningStopped ==
    /\ result.op = "start"
    /\ result.running
    /\ ~result.ret
    /\ pc = "done"

----------------------------------------------------------------------------
(* Specification SpecDaemon: a notifier loop that runs from shortly before *)
(* the time of a pending event and is never stopped, and the clock.        *)
(* SpecDaemonFair adds that the loop goes on whenever it can and that time *)
(* passes: the thread is scheduled, and a sleep ends when its time is      *)
(* over.                                                                   *)

InitDaemon ==
    /\ events = <<Row(1, Event(NotifierDay, 10, 0, <<"A">>), 0)>>
    /\ nextId = 2
    /\ memory = EmptyMemory
    /\ saved = chat_memory_to_dict(EmptyMemory)
    /\ now \in {Clock(s) : s \in (EventSecond - PollSeconds)..(EventSecond - 1)}
    /\ text = <<>>
    /\ result = Notifier(FALSE, "start", TRUE, TRUE)
    /\ pc = "test"

NextDaemon ==
    \/ LoopTest
    \/ SelectPending
    \/ PollRow
    \/ PollCommit
    \/ WaitDone
    \/ Tick

SpecDaemon == InitDaemon /\ [][NextDaemon]_vars

SpecDaemonFair == SpecDaemon /\ WF_vars(PollStep) /\ WF_vars(Tick)

\* C29: while the loop runs without being stopped, a stored event with
\* notified = 0 whose time is still to come is eventually alerted and marked
\* notified = 1: its time cannot fall between the windows of two polls.
C29_PendingIsAlerted ==
    (events[1].notified = 0 /\ now.s < StampOf(events[1]))
        ~> (events[1].notified = 1 /\ <<1, StampOf(events[1])>> \in result.alerts)

\* The event's time has passed by more than the window of the poll that is
\* about to read the clock, and the event is still pending: no later poll
\* alerts it.
C29_Missed ==
    /\ pc = "test"
    /\ events[1].notified = 0
    /\ now.s - PollSeconds > StampOf(events[1])

----------------------------------------------------------------------------
(* Specification SpecRace: a poll of the notifier loop on a store of one   *)
(* pending event that is due, while the event is edited or submitted       *)
(* again with another time.  `text` lists the events submitted.            *)

MaxEdits == 2

RaceEvents == {Event(NotifierDay, 10, 0, <<"A">>), Event(NotifierDay, 10, 5, <<"a", "-">>)}

ResubmittedEvents == RaceEvents \cup {Event(NotifierDay, 10, 0, <<"B">>)}

InitRace ==
    /\ events = <<Row(1, Event(NotifierDay, 10, 0, <<"A">>), 0)>>
    /\ nextId = 2
    /\ memory = EmptyMemory
    /\ saved = chat_memory_to_dict(EmptyMemory)
    /\ now \in {Clock(s) : s \in (EventSecond - 1)..(EventSecond + 1)}
    /\ text = <<>>
    /\ result = Notifier(FALSE, "start", TRUE, TRUE)
    /\ pc = "test"

\* PUT /api/events/<id> while the loop runs; the UPDATE waits while the
\* connection of the poll holds the write lock.
EditDuringPoll ==
    \E ev \in RaceEvents :
        /\ Len(text) < MaxEdits
        /\ ~result.locked
        /\ events' = UpdateRow(events, 1, ev)
        /\ text' = Append(text, ev)
        /\ UNCHANGED <<nextId, memory, saved, now, result, pc>>

\* insert_events of an event of the stored row's day and title key while
\* the loop runs
ResubmitDuringPoll ==
    \E ev \in ResubmittedEvents :
        /\ Len(text) < MaxEdits
        /\ ~result.locked
        /\ events' = insert_events([rows |-> events, next |-> nextId], <<ev>>).rows
        /\ nextId' = insert_events([rows |-> events, next |-> nextId], <<ev>>).next
        /\ text' = Append(text, ev)
        /\ UNCHANGED <<memory, saved, now, result, pc>>

NextRace ==
    \/ LoopTest
    \/ SelectPending
    \/ PollRow
    \/ PollCommit
    \/ WaitDone
    \/ Tick
    \/ EditDuringPoll
    \/ ResubmitDuringPoll

SpecRace == InitRace /\ [][NextRace]_vars

\* C30: when an event is submitted again or edited while a poll is under
\* way, the reset (new time, notified = 0) is not lost: once the poll and
\* the request have finished, a row has notified = 1 only if an alert was
\* sent for the time the row has now.
C30_ResetNotLost ==
    pc = "wait" =>
        \A i \in 1..Len(events) :
            events[i].notified = 1 =>
                <<events[i].id, StampOf(events[i])>> \in result.alerts

\* The row was moved to 10:05 between the SELECT of the poll and its
\* UPDATE: it is marked notified = 1 and the only alert sent was for 10:00.
C30_LostReset ==
    /\ pc = "wait"
    /\ Len(events) = 1
    /\ events[1].notified = 1
    /\ <<events[1].hh, events[1].mm>> = <<10, 5>>
    /\ result.alerts = {<<1, EventSecond>>}

====
